---- MODULE Spec2Model ----
(***************************************************************************)
(* Surface cards of the INP format: Surface.__init__, the per-kind         *)
(* constructors, Surface.from_mcnp and Surface.to_mcnp of                  *)
(* src/src/pymcnp/files/inp/surface.py.                                    *)
(*                                                                         *)
(* Encoding.  Python's None is the empty sequence and a present value v    *)
(* is <<v>>.  Text is a sequence of one-character strings.  A float is     *)
(* held in tenths (50 is 5.0), which is exact for every token the model    *)
(* writes or reads.                                                        *)
(***************************************************************************)
EXTENDS Integers, Sequences, FiniteSets, TLC

None == <<>>
Some(v) == <<v>>
Val(o) == o[1]

\* ---------------------------------------------------------------- bounds
\* parameters supplied beyond a kind's full signature
MaxExtra == 1
\* numeric tokens of the cards of the header sweep
MaxCardParams == 2

\* ------------------------------------------------------ error codes
INVALID_SURFACE_MNEMONIC == "INVALID_SURFACE_MNEMONIC"
INVALID_SURFACE_PARAMETER == "INVALID_SURFACE_PARAMETER"
INVALID_SURFACE_NUMBER == "INVALID_SURFACE_NUMBER"
INVALID_SURFACE_TRANSFORMPERIODIC == "INVALID_SURFACE_TRANSFORMPERIODIC"
INVALID_SURFACE_WHITEBOUNDARY == "INVALID_SURFACE_WHITEBOUNDARY"
INVALID_SURFACE_REFLECTING == "INVALID_SURFACE_REFLECTING"
TOOFEW_SURFACE_ENTRIES == "TOOFEW_SURFACE_ENTRIES"
TOOFEW_SURFACE == "TOOFEW_SURFACE"
TypeError == "TypeError"
ValueError == "ValueError"
IndexError == "IndexError"
NoError == "ok"

Raise(e) == [err |-> e, obj |-> None]
Return(o) == [err |-> NoError, obj |-> Some(o)]

\* ------------------------------------------------ SurfaceMnemonic
\* The members in declaration order, each with its value.
SurfaceMnemonic ==
  << <<"PLANEGENERAL", <<"p">> >>,
     <<"PLANENORMALX", <<"p","x">> >>,
     <<"PLANENORMALY", <<"p","y">> >>,
     <<"PLANENORMALZ", <<"p","z">> >>,
     <<"SPHEREORIGIN", <<"s","o">> >>,
     <<"SPHEREGENERAL", <<"s">> >>,
     <<"SPHERENORMALX", <<"s","x">> >>,
     <<"SPHERENORMALY", <<"s","y">> >>,
     <<"SPHERENORMALZ", <<"s","z">> >>,
     <<"CYLINDERPARALLELX", <<"c","/","x">> >>,
     <<"CYLINDERPARALLELY", <<"c","/","y">> >>,
     <<"CYLINDERPARALLELZ", <<"c","/","z">> >>,
     <<"CYLINDERONX", <<"c","x">> >>,
     <<"CYLINDERONY", <<"c","y">> >>,
     <<"CYLINDERONZ", <<"c","z">> >>,
     <<"CONEPARALLELX", <<"k","/","x">> >>,
     <<"CONEPARALLELY", <<"k","/","y">> >>,
     <<"CONEPARALLELZ", <<"k","/","z">> >>,
     <<"CONEONX", <<"k","x">> >>,
     <<"CONEONY", <<"k","y">> >>,
     <<"CONEONZ", <<"k","x">> >>,
     <<"QUADRATICSPECIAL", <<"s","q">> >>,
     <<"QUADRATICGENERAL", <<"g","q">> >>,
     <<"TORUSPARALLELX", <<"t","x">> >>,
     <<"TORUSPARALLELY", <<"t","y">> >>,
     <<"TORUSPARALLELZ", <<"t","z">> >>,
     <<"SURFACEX", <<"x">> >>,
     <<"SURFACEY", <<"y">> >>,
     <<"SURFACEZ", <<"z">> >>,
     <<"BOX", <<"b","o","x">> >>,
     <<"PARALLELEPIPED", <<"r","p","p">> >>,
     <<"SPHERE", <<"s","p","h">> >>,
     <<"CYLINDERCIRCULAR", <<"r","c","c">> >>,
     <<"HEXAGONALPRISM", <<"r","h","p">> >>,
     <<"CYLINDERELLIPTICAL", <<"r","e","c">> >>,
     <<"CONETRUNCATED", <<"t","r","c">> >>,
     <<"ELLIPSOID", <<"e","l","l">> >>,
     <<"WEDGE", <<"w","e","d">> >>,
     <<"POLYHEDRON", <<"a","r","b">> >> >>

\* the names written in the class body
DeclaredNames == {SurfaceMnemonic[i][1] : i \in 1..Len(SurfaceMnemonic)}

\* position of the first declaration that has the value v (0: none)
FirstWithValue(v) ==
  IF \E i \in 1..Len(SurfaceMnemonic) : SurfaceMnemonic[i][2] = v
  THEN CHOOSE i \in 1..Len(SurfaceMnemonic) :
         /\ SurfaceMnemonic[i][2] = v
         /\ \A j \in 1..(i-1) : SurfaceMnemonic[j][2] # v
  ELSE 0

DeclaredValue(name) ==
  SurfaceMnemonic[CHOOSE i \in 1..Len(SurfaceMnemonic) : SurfaceMnemonic[i][1] = name][2]

\* Attribute access SurfaceMnemonic.NAME: a name declared with a value an
\* earlier name already has is an alias of that earlier member.
Member(name) == SurfaceMnemonic[FirstWithValue(DeclaredValue(name))][1]

\* iteration over the enumeration: the members, aliases left out
Members == {Member(n) : n \in DeclaredNames}

MemberValue(m) == DeclaredValue(m)

\* ------------------------------------------------- the surface kinds
\* One entry per subclass of Surface, in the order of the file (which is the
\* order of the arms of the match in Surface.__init__):
\*   mnemonic  the name its __init__ writes after SurfaceMnemonic.
\*   nparams   positional parameters between transform_periodic and the flags
\*   nreq      those of them without a default
\*   checked   leading parameters with an "is None" check of their own
\*   rule      what follows these checks:
\*               plain    nothing
\*               pairs    SurfaceX/Y/Z: the nested "a is not None and b is not None"
\*               group    Box, HexagonalPrism, CylinderElliptical: "any of the
\*                        rest is not None" requires each of the rest
\*               nonzero  Ellipsoid: the last parameter is None or == 0
Kinds ==
  << [cls |-> "PlaneGeneralPoint", mnemonic |-> "PLANEGENERAL", nparams |-> 9, nreq |-> 9,
      checked |-> 9, rule |-> "plain"],
     [cls |-> "PlaneGeneralEquation", mnemonic |-> "PLANEGENERAL", nparams |-> 4, nreq |-> 4,
      checked |-> 4, rule |-> "plain"],
     [cls |-> "PlaneNormalX", mnemonic |-> "PLANENORMALX", nparams |-> 1, nreq |-> 1,
      checked |-> 1, rule |-> "plain"],
     [cls |-> "PlaneNormalY", mnemonic |-> "PLANENORMALY", nparams |-> 1, nreq |-> 1,
      checked |-> 1, rule |-> "plain"],
     [cls |-> "PlaneNormalZ", mnemonic |-> "PLANENORMALZ", nparams |-> 1, nreq |-> 1,
      checked |-> 1, rule |-> "plain"],
     [cls |-> "SphereOrigin", mnemonic |-> "SPHEREORIGIN", nparams |-> 1, nreq |-> 1,
      checked |-> 1, rule |-> "plain"],
     [cls |-> "SphereGeneral", mnemonic |-> "SPHEREGENERAL", nparams |-> 4, nreq |-> 4,
      checked |-> 4, rule |-> "plain"],
     [cls |-> "SphereNormalX", mnemonic |-> "SPHERENORMALX", nparams |-> 2, nreq |-> 2,
      checked |-> 2, rule |-> "plain"],
     [cls |-> "SphereNormalY", mnemonic |-> "SPHERENORMALY", nparams |-> 2, nreq |-> 2,
      checked |-> 2, rule |-> "plain"],
     [cls |-> "SphereNormalZ", mnemonic |-> "SPHERENORMALZ", nparams |-> 2, nreq |-> 2,
      checked |-> 2, rule |-> "plain"],
     [cls |-> "CylinderParallelX", mnemonic |-> "CYLINDERPARALLELX", nparams |-> 3, nreq |-> 3,
      checked |-> 3, rule |-> "plain"],
     [cls |-> "CylinderParallelY", mnemonic |-> "CYLINDERPARALLELY", nparams |-> 3, nreq |-> 3,
      checked |-> 3, rule |-> "plain"],
     [cls |-> "CylinderParallelZ", mnemonic |-> "CYLINDERPARALLELZ", nparams |-> 3, nreq |-> 3,
      checked |-> 3, rule |-> "plain"],
     [cls |-> "CylinderOnX", mnemonic |-> "CYLINDERONX", nparams |-> 1, nreq |-> 1,
      checked |-> 1, rule |-> "plain"],
     [cls |-> "CylinderOnY", mnemonic |-> "CYLINDERONY", nparams |-> 1, nreq |-> 1,
      checked |-> 1, rule |-> "plain"],
     [cls |-> "CylinderOnZ", mnemonic |-> "CYLINDERONZ", nparams |-> 1, nreq |-> 1,
      checked |-> 1, rule |-> "plain"],
     [cls |-> "ConeParallelX", mnemonic |-> "CONEPARALLELX", nparams |-> 5, nreq |-> 5,
      checked |-> 5, rule |-> "plain"],
     [cls |-> "ConeParallelY", mnemonic |-> "CONEPARALLELY", nparams |-> 5, nreq |-> 5,
      checked |-> 5, rule |-> "plain"],
     [cls |-> "ConeParallelZ", mnemonic |-> "CONEPARALLELZ", nparams |-> 5, nreq |-> 5,
      checked |-> 5, rule |-> "plain"],
     [cls |-> "ConeOnX", mnemonic |-> "CONEONX", nparams |-> 3, nreq |-> 3,
      checked |-> 3, rule |-> "plain"],
     [cls |-> "ConeOnY", mnemonic |-> "CONEONY", nparams |-> 3, nreq |-> 3,
      checked |-> 3, rule |-> "plain"],
     [cls |-> "ConeOnZ", mnemonic |-> "CONEONZ", nparams |-> 3, nreq |-> 3,
      checked |-> 3, rule |-> "plain"],
     [cls |-> "QuadraticSpecial", mnemonic |-> "QUADRATICSPECIAL", nparams |-> 10, nreq |-> 10,
      checked |-> 10, rule |-> "plain"],
     [cls |-> "QuadraticGeneral", mnemonic |-> "QUADRATICGENERAL", nparams |-> 10, nreq |-> 10,
      checked |-> 10, rule |-> "plain"],
     [cls |-> "TorusParallelX", mnemonic |-> "TORUSPARALLELX", nparams |-> 6, nreq |-> 6,
      checked |-> 6, rule |-> "plain"],
     [cls |-> "TorusParallelY", mnemonic |-> "TORUSPARALLELY", nparams |-> 6, nreq |-> 6,
      checked |-> 6, rule |-> "plain"],
     [cls |-> "TorusParallelZ", mnemonic |-> "TORUSPARALLELZ", nparams |-> 6, nreq |-> 6,
      checked |-> 6, rule |-> "plain"],
     [cls |-> "SurfaceX", mnemonic |-> "SURFACEX", nparams |-> 6, nreq |-> 2,
      checked |-> 2, rule |-> "pairs"],
     [cls |-> "SurfaceY", mnemonic |-> "SURFACEY", nparams |-> 6, nreq |-> 2,
      checked |-> 2, rule |-> "pairs"],
     [cls |-> "SurfaceZ", mnemonic |-> "SURFACEZ", nparams |-> 6, nreq |-> 2,
      checked |-> 2, rule |-> "pairs"],
     [cls |-> "Box", mnemonic |-> "BOX", nparams |-> 12, nreq |-> 9,
      checked |-> 9, rule |-> "group"],
     [cls |-> "Parallelepiped", mnemonic |-> "PARALLELEPIPED", nparams |-> 6, nreq |-> 6,
      checked |-> 6, rule |-> "plain"],
     [cls |-> "Sphere", mnemonic |-> "SPHERE", nparams |-> 4, nreq |-> 4,
      checked |-> 4, rule |-> "plain"],
     [cls |-> "CylinderCircular", mnemonic |-> "CYLINDERCIRCULAR", nparams |-> 7, nreq |-> 7,
      checked |-> 7, rule |-> "plain"],
     [cls |-> "HexagonalPrism", mnemonic |-> "HEXAGONALPRISM", nparams |-> 15, nreq |-> 9,
      checked |-> 9, rule |-> "group"],
     [cls |-> "CylinderElliptical", mnemonic |-> "CYLINDERELLIPTICAL", nparams |-> 12, nreq |-> 10,
      checked |-> 10, rule |-> "group"],
     [cls |-> "ConeTruncated", mnemonic |-> "CONETRUNCATED", nparams |-> 8, nreq |-> 8,
      checked |-> 8, rule |-> "plain"],
     [cls |-> "Ellipsoid", mnemonic |-> "ELLIPSOID", nparams |-> 7, nreq |-> 7,
      checked |-> 6, rule |-> "nonzero"],
     [cls |-> "Wedge", mnemonic |-> "WEDGE", nparams |-> 12, nreq |-> 12,
      checked |-> 12, rule |-> "plain"],
     [cls |-> "Polyhedron", mnemonic |-> "POLYHEDRON", nparams |-> 30, nreq |-> 30,
      checked |-> 30, rule |-> "plain"] >>

KindIndex(cls) == CHOOSE k \in 1..Len(Kinds) : Kinds[k].cls = cls
Classes == {Kinds[k].cls : k \in 1..Len(Kinds)}

\* ---------------------------------------------- the per-kind __init__
NumberOk(number) == number # None /\ 1 <= Val(number) /\ Val(number) <= 99999999

TransformPeriodicOk(tp) == tp = None \/ (-99999999 <= Val(tp) /\ Val(tp) <= 999)

\* the transform kept whatever the sign of the input
TransformOf_AnySign(tp) == tp

\* self.transform = transform_periodic if transform_periodic > 0 else None
TransformOf(tp) == IF Val(tp) > 0 THEN tp ELSE None

\* self.periodic = transform_periodic if transform_periodic < 0 else None
PeriodicOf(tp) == IF Val(tp) < 0 THEN tp ELSE None

\* the reflecting flag accepted whenever it is not None
ReflectingOk_NotNone(wb, refl) == refl # None

\* "if is_reflecting is None or (is_reflecting and is_whiteboundary):" raises
ReflectingOk(wb, refl) == ~(refl = None \/ (Val(refl) /\ Val(wb)))

\* the arguments as the call binds them: a parameter that is not supplied
\* takes its default, None
Bind(K, P) == [i \in 1..K.nparams |-> IF i <= Len(P) THEN P[i] ELSE None]

\* SurfaceX/Y/Z: "if x2 is not None and r2 is not None:" guards the checks of
\* x2 and r2 and, nested in it, the same for x3 and r3
PairsOk(A) ==
  IF A[3] # None /\ A[4] # None
  THEN /\ A[3] # None
       /\ A[4] # None
       /\ IF A[5] # None /\ A[6] # None
          THEN A[5] # None /\ A[6] # None
          ELSE TRUE
  ELSE TRUE

\* Box, HexagonalPrism, CylinderElliptical: "if a is not None or b is not None
\* or ...:" then every one of them is checked
GroupOk(K, A) ==
  IF \E i \in (K.checked + 1)..K.nparams : A[i] # None
  THEN \A i \in (K.checked + 1)..K.nparams : A[i] # None
  ELSE TRUE

\* Ellipsoid: "if rm is None or rm == 0"
NonzeroOk(K, A) == ~(A[K.nparams] = None \/ Val(A[K.nparams]) = 0)

ParametersOk(K, A) ==
  /\ \A i \in 1..K.checked : A[i] # None
  /\ CASE K.rule = "pairs" -> PairsOk(A)
       [] K.rule = "group" -> GroupOk(K, A)
       [] K.rule = "nonzero" -> NonzeroOk(K, A)
       [] OTHER -> TRUE

\* Cls(number, transform_periodic, *P, is_whiteboundary=wb, is_reflecting=refl)
\* for the subclass cls.  The call itself raises TypeError when P has fewer
\* entries than the parameters without default or more than the signature has
\* (the flags are passed by keyword, so a surplus entry is either one
\* positional argument too many or a second value for a flag).
KindInit(cls, number, tp, P, wb, refl) ==
  LET K == Kinds[KindIndex(cls)]
      A == Bind(K, P)
  IN IF Len(P) < K.nreq \/ Len(P) > K.nparams THEN Raise(TypeError)
     ELSE IF ~NumberOk(number) THEN Raise(INVALID_SURFACE_NUMBER)
     ELSE IF ~TransformPeriodicOk(tp) THEN Raise(INVALID_SURFACE_TRANSFORMPERIODIC)
     ELSE IF wb = None THEN Raise(INVALID_SURFACE_WHITEBOUNDARY)
     ELSE IF ~ReflectingOk(wb, refl) THEN Raise(INVALID_SURFACE_REFLECTING)
     \* "transform_periodic > 0" with transform_periodic None
     ELSE IF tp = None THEN Raise(TypeError)
     ELSE IF ~ParametersOk(K, A) THEN Raise(INVALID_SURFACE_PARAMETER)
     ELSE Return([cls |-> cls,
                  number |-> Val(number),
                  mnemonic |-> Member(K.mnemonic),
                  transform |-> TransformOf(tp),
                  periodic |-> PeriodicOf(tp),
                  is_reflecting |-> Val(refl),
                  is_whiteboundary |-> Val(wb),
                  parameters |-> A,
                  comment |-> None])

\* ------------------------------------------------- Surface.__init__
\* The class the match selects for the member m: the first arm whose pattern
\* equals m.  The PLANEGENERAL arm picks its class by len(parameters).
MatchClass(m, P) ==
  IF m = Member("PLANEGENERAL")
  THEN IF Len(P) = 4 THEN "PlaneGeneralEquation" ELSE "PlaneGeneralPoint"
  ELSE Kinds[CHOOSE k \in 3..Len(Kinds) :
               /\ Member(Kinds[k].mnemonic) = m
               /\ \A j \in 3..(k-1) : Member(Kinds[j].mnemonic) # m].cls

\* Surface(number, mnemonic, transform_periodic, parameters,
\*         is_whiteboundary=wb, is_reflecting=refl)
SurfaceInit(number, mnemonic, tp, P, wb, refl) ==
  IF mnemonic = None THEN Raise(INVALID_SURFACE_MNEMONIC)
  ELSE IF P = None \/ Len(P) = 0 THEN Raise(INVALID_SURFACE_PARAMETER)
  ELSE LET r == KindInit(MatchClass(Val(mnemonic), P), number, tp, P, wb, refl)
       IN IF r.err = TypeError THEN Raise(TOOFEW_SURFACE_ENTRIES) ELSE r

\* ------------------------------------------------------------- text
DigitChars == <<"0","1","2","3","4","5","6","7","8","9">>
IsDigit(c) == \E d \in 1..10 : DigitChars[d] = c
DigitOf(c) == (CHOOSE d \in 1..10 : DigitChars[d] = c) - 1

RECURSIVE NatChars(_)
NatChars(n) ==
  IF n < 10 THEN <<DigitChars[n + 1]>>
  ELSE NatChars(n \div 10) \o <<DigitChars[(n % 10) + 1]>>

\* str(n) of an int
StrInt(n) == IF n < 0 THEN <<"-">> \o NatChars(-n) ELSE NatChars(n)

\* str(x) of a float x = v/10: the shortest text that reads back as x
StrReal(v) ==
  LET a == IF v < 0 THEN -v ELSE v
  IN (IF v < 0 THEN <<"-">> ELSE <<>>)
       \o NatChars(a \div 10) \o <<".">> \o <<DigitChars[(a % 10) + 1]>>

RECURSIVE NatOf(_)
NatOf(ds) ==
  IF Len(ds) = 0 THEN 0
  ELSE 10 * NatOf(SubSeq(ds, 1, Len(ds) - 1)) + DigitOf(ds[Len(ds)])

AllDigits(ds) == Len(ds) > 0 /\ \A i \in 1..Len(ds) : IsDigit(ds[i])

HasSign(tok) == Len(tok) > 0 /\ tok[1] \in {"+", "-"}
Unsigned(tok) == IF HasSign(tok) THEN Tail(tok) ELSE tok
Signed(tok, n) == IF HasSign(tok) /\ tok[1] = "-" THEN -n ELSE n

\* types.cast_fortran_integer: the integer a token spells, None for a token
\* that spells none (the placeholder j, a mnemonic, a real, the empty token)
cast_fortran_integer(tok) ==
  IF AllDigits(Unsigned(tok)) THEN Some(Signed(tok, NatOf(Unsigned(tok)))) ELSE None

\* types.cast_fortran_real: the real a token spells, in tenths; None for the
\* placeholder j and for a token that spells no real
cast_fortran_real(tok) ==
  LET u == Unsigned(tok)
      dot == IF \E i \in 1..Len(u) : u[i] = "."
             THEN CHOOSE i \in 1..Len(u) : u[i] = "." /\ \A j \in 1..(i-1) : u[j] # "."
             ELSE Len(u) + 1
      whole == SubSeq(u, 1, dot - 1)
      frac == SubSeq(u, dot + 1, Len(u))
  IN IF AllDigits(whole) /\ Len(frac) <= 1 /\ (Len(frac) = 1 => IsDigit(frac[1]))
     THEN Some(Signed(tok, 10 * NatOf(whole) + NatOf(frac)))
     ELSE None

UpperChars == <<"A","B","C","D","E","F","G","H","I","J","K","L","M",
                "N","O","P","Q","R","S","T","U","V","W","X","Y","Z">>
LowerChars == <<"a","b","c","d","e","f","g","h","i","j","k","l","m",
                "n","o","p","q","r","s","t","u","v","w","x","y","z">>
Lower(c) ==
  IF \E i \in 1..26 : UpperChars[i] = c
  THEN LowerChars[CHOOSE i \in 1..26 : UpperChars[i] = c]
  ELSE c

Contains(s, c) == \E i \in 1..Len(s) : s[i] = c
IndexOf(s, c) == CHOOSE i \in 1..Len(s) : s[i] = c /\ \A j \in 1..(i-1) : s[j] # c

\* s.split(c) for a one-character separator c
RECURSIVE Split(_, _)
Split(s, c) ==
  IF ~Contains(s, c) THEN <<s>>
  ELSE <<SubSeq(s, 1, IndexOf(s, c) - 1)>>
         \o Split(SubSeq(s, IndexOf(s, c) + 1, Len(s)), c)

\* c.join(parts)
RECURSIVE Join(_, _)
Join(parts, c) ==
  IF Len(parts) = 0 THEN <<>>
  ELSE IF Len(parts) = 1 THEN parts[1]
  ELSE parts[1] \o <<c>> \o Join(Tail(parts), c)

IsBlank(c) == c \in {" ", "\n"}

\* the maximal runs of non-blank characters of s
RECURSIVE Words(_)
Words(s) ==
  IF Len(s) = 0 THEN <<>>
  ELSE IF IsBlank(s[1]) THEN Words(Tail(s))
  ELSE LET n == IF \E i \in 1..Len(s) : IsBlank(s[i])
                THEN (CHOOSE i \in 1..Len(s) :
                        IsBlank(s[i]) /\ \A j \in 1..(i-1) : ~IsBlank(s[j])) - 1
                ELSE Len(s)
       IN <<SubSeq(s, 1, n)>> \o Words(SubSeq(s, n + 1, Len(s)))

\* columns of a line of an INP file
MaxLineLen == 80

\* the continuation mark "&" that ends a wrapped line, with its line break
RECURSIVE Unwrap(_)
Unwrap(s) ==
  IF Len(s) < 2 THEN s
  ELSE IF s[1] = "&" /\ s[2] = "\n" THEN <<" ">> \o Unwrap(SubSeq(s, 3, Len(s)))
  ELSE <<s[1]>> \o Unwrap(Tail(s))

\* _parser.Preprocessor.process_inp: case-normalised, continuation lines
\* joined, the tokens separated by exactly one blank, none at either end
process_inp(s) ==
  Join(Words(Unwrap([i \in 1..Len(s) |-> Lower(s[i])])), " ")

\* _parser.Postprocessor.add_continuation_lines: a line longer than the
\* format allows is broken at its last blank that leaves room for the mark
RECURSIVE add_continuation_lines(_)
add_continuation_lines(s) ==
  IF Len(s) <= MaxLineLen \/ ~Contains(SubSeq(s, 1, MaxLineLen - 1), " ") THEN s
  ELSE LET i == CHOOSE i \in 1..(MaxLineLen - 1) :
                  s[i] = " " /\ \A j \in (i+1)..(MaxLineLen - 1) : s[j] # " "
       IN SubSeq(s, 1, i) \o <<"&", "\n">>
            \o add_continuation_lines(SubSeq(s, i + 1, Len(s)))

\* ------------------------------------- SurfaceMnemonic.from_mcnp
MnemonicFromMcnp(tok) ==
  LET source == process_inp(tok)
  IN IF source \notin {MemberValue(m) : m \in Members}
     THEN Raise(INVALID_SURFACE_MNEMONIC)
     ELSE Return(SurfaceMnemonic[FirstWithValue(source)][1])

\* --------------------------------------------- Surface.from_mcnp
\* A Parser raises the error it was built with (TOOFEW_SURFACE) when popl or
\* peekl finds it empty.

\* the text of the comment as from_mcnp stores it
CommentOf(parts) == parts[2]

\* the tokens once a leading "+" or "*" is taken off the first
StripPrefix(toks) ==
  IF toks[1][1] \in {"+", "*"} THEN <<Tail(toks[1])>> \o Tail(toks) ELSE toks

\* from the token after the number on: transform/periodic, mnemonic, parameters
FromTokens(number, toks, wb, refl, comment) ==
  IF Len(toks) = 0 THEN Raise(TOOFEW_SURFACE)
  ELSE LET given == cast_fortran_integer(toks[1]) # None
           tp == IF given THEN cast_fortran_integer(toks[1]) ELSE None
           rest == IF given THEN Tail(toks) ELSE toks
       IN IF Len(rest) = 0 THEN Raise(TOOFEW_SURFACE)
          ELSE LET m == MnemonicFromMcnp(rest[1])
                   P == [i \in 1..(Len(rest) - 1) |-> cast_fortran_real(rest[i + 1])]
               IN IF m.err # NoError THEN Raise(m.err)
                  ELSE LET r == SurfaceInit(number, m.obj, tp, P, Some(wb), Some(refl))
                       IN IF r.err # NoError THEN r
                          ELSE Return([Val(r.obj) EXCEPT !.comment = comment])

FromMcnp(text) ==
  LET dollar == Contains(text, "$")
      parts == Split(text, "$")
  IN \* "source, comment = source.split('$')" unpacks exactly two parts
     IF dollar /\ Len(parts) # 2 THEN Raise(ValueError)
     ELSE LET source == IF dollar THEN parts[1] ELSE text
              comment == IF dollar THEN Some(CommentOf(parts)) ELSE None
              tokens == Split(process_inp(source), " ")
          IN \* "tokens.peekl()[0]" of an empty first token
             IF Len(tokens[1]) = 0 THEN Raise(IndexError)
             ELSE LET wb == tokens[1][1] = "+"
                      refl == tokens[1][1] # "+" /\ tokens[1][1] = "*"
                      toks == StripPrefix(tokens)
                  IN FromTokens(cast_fortran_integer(toks[1]), Tail(toks),
                                wb, refl, comment)

\* ------------------------------------------------ Surface.to_mcnp
\* the text of one parameter: str(parameter), or '' for None
ParameterText(p) == IF p = None THEN <<>> ELSE StrReal(Val(p))

\* "' ' + {self.transform} + ' '" adds a str and a set: TypeError
ToMcnp(s) ==
  IF s.transform # None THEN [err |-> TypeError, text |-> <<>>]
  ELSE [err |-> NoError,
        text |-> add_continuation_lines(
                   StrInt(s.number) \o <<" ">> \o MemberValue(s.mnemonic) \o <<" ">>
                     \o Join([i \in 1..Len(s.parameters) |-> ParameterText(s.parameters[i])],
                             " "))]

\* ------------------------------------------- Surface.to_arguments
\* the dictionary, its keys "j", "+", "*", "n", "A", "list" as the fields
\* j, plus, star, n, A, list
ToArguments(s) ==
  [j |-> s.number,
   plus |-> s.is_reflecting,
   star |-> s.is_whiteboundary,
   n |-> s.transform,
   A |-> s.mnemonic,
   list |-> s.parameters]

\* ------------------------------------------------- the calls made
\* The program is called once: Surface.from_mcnp on a card, Surface(...) or
\* one of the subclasses directly.  A surface that was constructed may then
\* be written with to_mcnp, and what was written read back with from_mcnp,
\* or be turned into a dictionary with to_arguments.
VARIABLES
  pc,        \* "call", "returned", "raised", "written", "write_raised", "reparsed",
             \* "described"
  call,      \* the call and its arguments
  surface,   \* the surface the call returned, None if it raised
  error,     \* the error the call raised, NoError if it returned
  source,    \* the text to_mcnp returned
  werror,    \* the error to_mcnp raised
  surface2,  \* the surface read back from source
  error2,    \* the error reading source back raised
  arguments, \* the dictionary to_arguments returned
  \* read_file of parse_ptrac.py on one PTRAC file
  input,     \* what the file was written from: counts, identifiers, histories
  fin,       \* the lines of the file, each the numbers written on it
  consumed,  \* how many lines next(fin) has returned
  ppc,       \* where read_file is: "start", "counts", "ids", "more_ids",
             \* "layout", "history", "J", "P", "done", "raised"
  header,    \* the Header: N1 and IDS
  scan,      \* the locals of Header.parse: the offsets, need, L and got
  hist,      \* the History being decoded, None between histories
  Jline,     \* the J-line of the event being read
  delivered, \* the histories handed to handle_history, in order
  lines,     \* for each delivered history the first and last line it was read from
  perror,    \* the error read_file raised
  \* two Header.parse calls, one after the other, in one process
  kpc,       \* "first", "second", "done", "raised"
  kinput,    \* the keyword values of the two files
  keywords,  \* the module's dictionary keywords
  shown,     \* what repr() of each header shows of the keywords
  kerror,    \* the error a Header.parse raised
  \* Ptrac.from_mcnp of ptrac.py on the text of the file
  fpc,       \* "start", "loop", "returned", "raised"
  fconsumed, \* how many lines of the source are no longer in lines
  histories, \* the list histories
  ferror,    \* the error from_mcnp raised
  \* Inp of inp.py
  ipc,       \* "call", "returned", "raised"
  iarg,      \* the argument of the call: a title or None
  title,     \* self.title
  ierror,    \* the error the call raised
  icalls,    \* how many calls there were
  \* Cut of data.py
  cpc,       \* "card", "written", "read", "raised"
  card,      \* the Cut card
  ctext,     \* the text to_mcnp returned
  card2,     \* the card from_mcnp read from the text
  cerror     \* the error from_mcnp raised

surfaceVars == <<pc, call, surface, error, source, werror, surface2, error2, arguments>>
ptracVars ==
  <<input, fin, consumed, ppc, header, scan, hist, Jline, delivered, lines, perror>>
kwVars == <<kpc, kinput, keywords, shown, kerror>>
fmVars == <<fpc, fconsumed, histories, ferror>>
inpVars == <<ipc, iarg, title, ierror, icalls>>
cutVars == <<cpc, card, ctext, card2, cerror>>
restVars == <<kwVars, fmVars, inpVars, cutVars>>
vars == <<surfaceVars, ptracVars, restVars>>

\* no header is decoded twice
KwIdle ==
  /\ kpc = "idle"
  /\ kinput = None
  /\ keywords = None
  /\ shown = <<>>
  /\ kerror = NoError

\* Ptrac.from_mcnp is not called
FmIdle ==
  /\ fpc = "idle"
  /\ fconsumed = 0
  /\ histories = <<>>
  /\ ferror = NoError

\* there is no Inp
InpIdle ==
  /\ ipc = "idle"
  /\ iarg = None
  /\ title = None
  /\ ierror = NoError
  /\ icalls = 0

\* there is no Cut card
CutIdle ==
  /\ cpc = "idle"
  /\ card = None
  /\ ctext = <<>>
  /\ card2 = None
  /\ cerror = NoError

RestIdle == KwIdle /\ FmIdle /\ InpIdle /\ CutIdle

\* no PTRAC file is read
PtracIdle ==
  /\ input = None
  /\ fin = <<>>
  /\ consumed = 0
  /\ ppc = "idle"
  /\ header = None
  /\ scan = None
  /\ hist = None
  /\ Jline = None
  /\ delivered = <<>>
  /\ lines = <<>>
  /\ perror = NoError

\* the i-th parameter of an argument list, in tenths: base.0, base.5, ...
ParamVal(i, base) == 10 * base + 5 * (i - 1)

\* n parameters, the one at position hole (if any) None
Params(n, hole, base) ==
  [i \in 1..n |-> IF i = hole THEN None ELSE Some(ParamVal(i, base))]

\* the same as tokens of a card, the placeholder j for None
ParamTokens(n, hole, base) ==
  [i \in 1..n |-> IF i = hole THEN <<"j">> ELSE StrReal(ParamVal(i, base))]

Numbers == {None} \cup {Some(n) : n \in {0, 1, 99999999, 100000000}}
TransformPeriodics ==
  {None} \cup {Some(n) : n \in {-100000000, -99999999, -1, 0, 1, 999, 1000}}
Flags == {None, Some(TRUE), Some(FALSE)}
ArityBases == {-3, 3}
HeaderBases == {3, 5}

\* the longest parameter list a class of the member m takes
MaxArity(m) ==
  LET ns == {Kinds[k].nparams : k \in {j \in 1..Len(Kinds) : Member(Kinds[j].mnemonic) = m}}
  IN CHOOSE n \in ns : \A o \in ns : o <= n

\* the parameter counts with which a class of the member m can be built
FullArities(m) ==
  UNION {{Kinds[k].nreq, Kinds[k].nparams} :
           k \in {j \in 1..Len(Kinds) : Member(Kinds[j].mnemonic) = m}}

NoCard == [prefix |-> <<>>, number |-> <<>>, tp |-> None, mnemonic |-> <<>>,
           params |-> <<>>, suffix |-> <<>>]

ArgsCall(api, cls, number, mnemonic, tp, P, wb, refl) ==
  [api |-> api, text |-> <<>>, card |-> NoCard, cls |-> cls, number |-> number,
   mnemonic |-> mnemonic, tp |-> tp, parameters |-> P, wb |-> wb, refl |-> refl]

\* the boolean flag values, and the flag pairs tried with every number and
\* transform/periodic
BoolFlags == {Some(TRUE), Some(FALSE)}

\* Surface(...) with every parameter count from none to MaxExtra too many,
\* at most one parameter None
SurfaceArityCall(c) ==
  \E m \in Members : \E n \in 0..(MaxArity(m) + MaxExtra) :
    \E h \in 0..n, b \in ArityBases, tp \in {None, Some(1)} :
      c = ArgsCall("Surface", "", Some(1), Some(m), tp, Params(n, h, b),
                   Some(FALSE), Some(FALSE))

\* Surface(...) with full parameter lists and every number, transform/periodic
\* and flag value
SurfaceHeaderCall(c) ==
  \E m \in Members : \E n \in FullArities(m) :
    \/ \E num \in Numbers, tp \in TransformPeriodics, wb \in BoolFlags, refl \in BoolFlags :
         c = ArgsCall("Surface", "", num, Some(m), tp, Params(n, 0, 3), wb, refl)
    \/ \E wb \in Flags, refl \in Flags :
         /\ None \in {wb, refl}
         /\ c = ArgsCall("Surface", "", Some(1), Some(m), Some(1), Params(n, 0, 3), wb, refl)

\* Surface(...) without a mnemonic
SurfaceNoMnemonicCall(c) ==
  \E tp \in {None, Some(1)}, n \in 0..1 :
    c = ArgsCall("Surface", "", Some(1), None, tp, Params(n, 0, 3), Some(FALSE), Some(FALSE))

\* Cls(...) for every subclass, the same two families
KindArityCall(c) ==
  \E k \in 1..Len(Kinds) : \E n \in 0..(Kinds[k].nparams + MaxExtra) :
    \E h \in 0..n, b \in ArityBases, tp \in {None, Some(1)} :
      c = ArgsCall("Kind", Kinds[k].cls, Some(1), None, tp, Params(n, h, b),
                   Some(FALSE), Some(FALSE))

KindHeaderCall(c) ==
  \E k \in 1..Len(Kinds) : \E n \in {Kinds[k].nreq, Kinds[k].nparams} :
    \/ \E num \in Numbers, tp \in TransformPeriodics, wb \in BoolFlags, refl \in BoolFlags :
         c = ArgsCall("Kind", Kinds[k].cls, num, None, tp, Params(n, 0, 3), wb, refl)
    \/ \E wb \in Flags, refl \in Flags :
         /\ None \in {wb, refl}
         /\ c = ArgsCall("Kind", Kinds[k].cls, Some(1), None, Some(1), Params(n, 0, 3), wb, refl)

\* the text of a card from its fields
CardText(c) ==
  c.prefix \o c.number
    \o (IF c.tp = None THEN <<>> ELSE <<" ">> \o Val(c.tp))
    \o <<" ">> \o c.mnemonic
    \o (IF Len(c.params) = 0 THEN <<>> ELSE <<" ">> \o Join(c.params, " "))
    \o c.suffix

CardCall(c) ==
  [api |-> "from_mcnp", text |-> CardText(c), card |-> c, cls |-> "", number |-> None,
   mnemonic |-> None, tp |-> None, parameters |-> <<>>, wb |-> None, refl |-> None]

\* mnemonic tokens that are no member's value
OtherMnemonics == {<<"k","z">>, <<"q">>}

\* cards of every mnemonic with every parameter count, at most one a j
ArityCard(c) ==
  \/ \E m \in Members : \E n \in 0..(MaxArity(m) + MaxExtra) :
       \E h \in 0..n, tp \in {None, Some(<<"1">>)} :
         c = CardCall([prefix |-> <<>>, number |-> <<"1">>, tp |-> tp,
                       mnemonic |-> MemberValue(m),
                       params |-> ParamTokens(n, h, 3), suffix |-> <<>>])
  \/ \E v \in OtherMnemonics : \E n \in 0..(3 + MaxExtra) :
       \E tp \in {None, Some(<<"1">>)} :
         c = CardCall([prefix |-> <<>>, number |-> <<"1">>, tp |-> tp, mnemonic |-> v,
                       params |-> ParamTokens(n, 0, 3), suffix |-> <<>>])

Prefixes == {<<>>, <<"+">>, <<"*">>}
NumberTokens == {<<"j">>} \cup {StrInt(n) : n \in {0, 1, 2, 99999999, 100000000}}
TransformPeriodicTokens ==
  {None} \cup {Some(StrInt(n)) : n \in {-100000000, -1, 0, 1, 999, 1000}}
HeaderMnemonics == {<<"p","x">>, <<"P","X">>, <<"s","o">>, <<"S","O">>, <<"c","z">>}
Suffixes ==
  { <<>>,
    <<" ","$"," ","b","o","u","n","d","a","r","y">>,
    <<"$","b","o","u","n","d","a","r","y">>,
    <<" ","$"," ","a"," ","$"," ","b">> }

\* cards of a few one-parameter mnemonics with every prefix, number,
\* transform/periodic and comment
HeaderCard(c) ==
  \E p \in Prefixes, num \in NumberTokens, tp \in TransformPeriodicTokens,
     v \in HeaderMnemonics, n \in 0..MaxCardParams, b \in HeaderBases, s \in Suffixes :
    c = CardCall([prefix |-> p, number |-> num, tp |-> tp, mnemonic |-> v,
                  params |-> ParamTokens(n, 0, b), suffix |-> s])

Init ==
  /\ pc = "call"
  /\ \/ SurfaceArityCall(call)
     \/ SurfaceHeaderCall(call)
     \/ SurfaceNoMnemonicCall(call)
     \/ KindArityCall(call)
     \/ KindHeaderCall(call)
     \/ ArityCard(call)
     \/ HeaderCard(call)
  /\ surface = None
  /\ error = NoError
  /\ source = None
  /\ werror = NoError
  /\ surface2 = None
  /\ error2 = NoError
  /\ arguments = None
  /\ PtracIdle
  /\ RestIdle

Finish(r) ==
  /\ surface' = r.obj
  /\ error' = r.err
  /\ pc' = IF r.err = NoError THEN "returned" ELSE "raised"
  /\ UNCHANGED <<call, source, werror, surface2, error2, arguments>>
  /\ UNCHANGED <<ptracVars, restVars>>

\* Surface.from_mcnp(call.text)
CallFromMcnp ==
  /\ pc = "call"
  /\ call.api = "from_mcnp"
  /\ Finish(FromMcnp(call.text))

\* Surface(number, mnemonic, transform_periodic, parameters, ...)
CallSurface ==
  /\ pc = "call"
  /\ call.api = "Surface"
  /\ Finish(SurfaceInit(call.number, call.mnemonic, call.tp, call.parameters,
                        call.wb, call.refl))

\* Cls(number, transform_periodic, *parameters, ...)
CallKind ==
  /\ pc = "call"
  /\ call.api = "Kind"
  /\ Finish(KindInit(call.cls, call.number, call.tp, call.parameters,
                     call.wb, call.refl))

\* surface.to_mcnp()
CallToMcnp ==
  /\ pc = "returned"
  /\ LET w == ToMcnp(Val(surface))
     IN /\ werror' = w.err
        /\ source' = IF w.err = NoError THEN Some(w.text) ELSE None
        /\ pc' = IF w.err = NoError THEN "written" ELSE "write_raised"
  /\ UNCHANGED <<call, surface, error, surface2, error2, arguments>>
  /\ UNCHANGED <<ptracVars, restVars>>

\* Surface.from_mcnp(source)
Reparse ==
  /\ pc = "written"
  /\ LET r == FromMcnp(Val(source))
     IN /\ surface2' = r.obj
        /\ error2' = r.err
  /\ pc' = "reparsed"
  /\ UNCHANGED <<call, surface, error, source, werror, arguments>>
  /\ UNCHANGED <<ptracVars, restVars>>

\* surface.to_arguments()
CallToArguments ==
  /\ pc = "returned"
  /\ arguments' = Some(ToArguments(Val(surface)))
  /\ pc' = "described"
  /\ UNCHANGED <<call, surface, error, source, werror, surface2, error2>>
  /\ UNCHANGED <<ptracVars, restVars>>

Next ==
  \/ CallFromMcnp
  \/ CallSurface
  \/ CallKind
  \/ CallToMcnp
  \/ Reparse
  \/ CallToArguments

Spec == Init /\ [][Next]_vars

\* =====================================================================
\* What a call was given, whichever way it was made
\* =====================================================================
IsCard == call.api = "from_mcnp"
Called == pc # "call"

InputNumber == IF IsCard THEN cast_fortran_integer(call.card.number) ELSE call.number

InputTP ==
  IF IsCard
  THEN (IF call.card.tp = None THEN None ELSE cast_fortran_integer(Val(call.card.tp)))
  ELSE call.tp

InputParameters ==
  IF IsCard
  THEN [i \in 1..Len(call.card.params) |-> cast_fortran_real(call.card.params[i])]
  ELSE call.parameters

InputWhiteboundary == IF IsCard THEN Some(call.card.prefix = <<"+">>) ELSE call.wb
InputReflecting == IF IsCard THEN Some(call.card.prefix = <<"*">>) ELSE call.refl

\* the card's mnemonic token, case-normalised
CardMnemonic == [i \in 1..Len(call.card.mnemonic) |-> Lower(call.card.mnemonic[i])]

\* the call names a member of SurfaceMnemonic (a subclass call needs none)
MnemonicKnown ==
  CASE call.api = "Kind" -> TRUE
    [] call.api = "Surface" -> call.mnemonic # None
    [] OTHER -> CardMnemonic \in {MemberValue(m) : m \in Members}

InputMember ==
  CASE call.api = "Kind" -> Member(Kinds[KindIndex(call.cls)].mnemonic)
    [] call.api = "Surface" -> Val(call.mnemonic)
    [] OTHER -> SurfaceMnemonic[FirstWithValue(CardMnemonic)][1]

\* the class the call is for
InputClass ==
  IF call.api = "Kind" THEN call.cls ELSE MatchClass(InputMember, InputParameters)

InputKind == Kinds[KindIndex(InputClass)]

\* a card with at most one "$"
OneComment == IsCard => Len(Split(call.card.suffix, "$")) <= 2

FlagsValid ==
  /\ InputWhiteboundary # None
  /\ InputReflecting # None
  /\ ~(Val(InputWhiteboundary) /\ Val(InputReflecting))

NumberValid == InputNumber # None /\ 1 <= Val(InputNumber) /\ Val(InputNumber) <= 99999999

TPInRange == InputTP # None /\ -99999999 <= Val(InputTP) /\ Val(InputTP) <= 999

\* every parameter of the kind is given, none None and none zero
ParametersFull ==
  /\ Len(InputParameters) = InputKind.nparams
  /\ \A i \in 1..Len(InputParameters) :
       InputParameters[i] # None /\ Val(InputParameters[i]) # 0

\* as many parameters as the kind's signature accepts
ArityAccepted ==
  /\ InputKind.nreq <= Len(InputParameters)
  /\ Len(InputParameters) <= InputKind.nparams

ArityErrors == {TOOFEW_SURFACE_ENTRIES, TOOFEW_SURFACE, "TOOMANY_SURFACE_ENTRIES", "TOOLONG_SURFACE"}
TooFewErrors == {TOOFEW_SURFACE_ENTRIES, TOOFEW_SURFACE}

\* =====================================================================
\* C1
\* =====================================================================
ScenarioA == <<"1", " ", "S", "O", " ", "5", ".", "0">>

\* C1: Surface.from_mcnp on a card without a prefix character and without a
\* transform/periodic field (number, mnemonic and parameters valid) does not
\* raise and returns a surface with transform and periodic absent and both
\* flags false; on "1 SO 5.0" the surface has number 1, is a SphereOrigin and
\* has r = 5.0.
C1_NoPrefixNoTransformParses ==
  /\ (Called /\ IsCard /\ call.card.prefix = <<>> /\ call.card.tp = None
        /\ OneComment /\ NumberValid /\ MnemonicKnown /\ ParametersFull)
     => /\ error = NoError
        /\ pc # "raised"
        /\ Val(surface).transform = None
        /\ Val(surface).periodic = None
        /\ ~Val(surface).is_reflecting
        /\ ~Val(surface).is_whiteboundary
  /\ (Called /\ IsCard /\ call.text = ScenarioA)
     => surface = Some([cls |-> "SphereOrigin", number |-> 1, mnemonic |-> "SPHEREORIGIN",
                        transform |-> None, periodic |-> None,
                        is_reflecting |-> FALSE, is_whiteboundary |-> FALSE,
                        parameters |-> <<Some(50)>>, comment |-> None])

\* "1 SO 5.0" is parsed and the parse raises TOOFEW_SURFACE_ENTRIES
C1_ScenarioARaises ==
  /\ pc = "raised"
  /\ IsCard
  /\ call.text = ScenarioA
  /\ error = TOOFEW_SURFACE_ENTRIES

\* =====================================================================
\* C2
\* =====================================================================
ScenarioB ==
  <<"*", "2", " ", "1", " ", "P", "X", " ", "3", ".", "0",
    " ", "$", " ", "b", "o", "u", "n", "d", "a", "r", "y">>

Boundary == <<"b", "o", "u", "n", "d", "a", "r", "y">>

\* C2: Surface.from_mcnp on "*2 1 PX 3.0 $ boundary" returns a reflecting,
\* not white-boundary PlaneNormalX with number 2, transform 1, no periodic,
\* d = 3.0 and the inline comment "boundary", exactly.
C2_ScenarioB ==
  (Called /\ IsCard /\ call.text = ScenarioB)
  => surface = Some([cls |-> "PlaneNormalX", number |-> 2, mnemonic |-> "PLANENORMALX",
                     transform |-> Some(1), periodic |-> None,
                     is_reflecting |-> TRUE, is_whiteboundary |-> FALSE,
                     parameters |-> <<Some(30)>>, comment |-> Some(Boundary)])

\* scenario B is parsed: every field is as the claim says, and the comment
\* is " boundary", the blank after the "$" included
C2_CommentKeepsBlank ==
  /\ pc = "returned"
  /\ IsCard
  /\ call.text = ScenarioB
  /\ surface = Some([cls |-> "PlaneNormalX", number |-> 2, mnemonic |-> "PLANENORMALX",
                     transform |-> Some(1), periodic |-> None,
                     is_reflecting |-> TRUE, is_whiteboundary |-> FALSE,
                     parameters |-> <<Some(30)>>, comment |-> Some(<<" ">> \o Boundary)])

\* =====================================================================
\* C3
\* =====================================================================
SameSurface(s, t) ==
  /\ s.number = t.number
  /\ s.cls = t.cls
  /\ s.mnemonic = t.mnemonic
  /\ s.transform = t.transform
  /\ s.periodic = t.periodic
  /\ s.is_reflecting = t.is_reflecting
  /\ s.is_whiteboundary = t.is_whiteboundary
  /\ s.parameters = t.parameters

\* C3: round trip.  For every surface s that was constructed, s.to_mcnp()
\* returns a text, Surface.from_mcnp of that text succeeds, and the surface it
\* returns has the number, kind, transform, periodic, flags and parameters of s.
C3_RoundTrip ==
  /\ pc # "write_raised"
  /\ pc = "reparsed" => (error2 = NoError /\ SameSurface(Val(surface), Val(surface2)))

\* a surface with a transform was constructed and to_mcnp raised TypeError
C3_ToMcnpRaises ==
  /\ pc = "write_raised"
  /\ Val(surface).transform # None
  /\ werror = TypeError

\* =====================================================================
\* C4
\* =====================================================================
\* C4: with the mnemonic "p" (number, transform/periodic and flags valid,
\* every parameter a number), exactly 4 parameters give the equation-form
\* plane, exactly 9 the point-form plane, and any other count raises an arity
\* error and gives no surface.
C4_PlaneArity ==
  (Called /\ call.api # "Kind" /\ MnemonicKnown /\ OneComment
     /\ InputMember = "PLANEGENERAL"
     /\ NumberValid /\ TPInRange /\ FlagsValid
     /\ \A i \in 1..Len(InputParameters) : InputParameters[i] # None)
  => CASE Len(InputParameters) = 4 ->
            error = NoError /\ Val(surface).cls = "PlaneGeneralEquation"
              /\ Val(surface).parameters = InputParameters
       [] Len(InputParameters) = 9 ->
            error = NoError /\ Val(surface).cls = "PlaneGeneralPoint"
              /\ Val(surface).parameters = InputParameters
       [] OTHER -> error \in ArityErrors /\ surface = None

\* Surface(...) with the mnemonic p and no parameter raises
\* INVALID_SURFACE_PARAMETER
C4_NoParameterIsInvalidParameter ==
  /\ pc = "raised"
  /\ call.api = "Surface"
  /\ call.mnemonic = Some("PLANEGENERAL")
  /\ TPInRange
  /\ Len(call.parameters) = 0
  /\ error = INVALID_SURFACE_PARAMETER

\* =====================================================================
\* C5
\* =====================================================================
\* the optional trailing groups of a class, as positions of its parameters
OptionalGroups(cls) ==
  CASE cls \in {"SurfaceX", "SurfaceY", "SurfaceZ"} -> {{3, 4}, {5, 6}}
    [] cls = "Box" -> {{10, 11, 12}}
    [] cls = "HexagonalPrism" -> {{10, 11, 12}, {13, 14, 15}}
    [] cls = "CylinderElliptical" -> {{11, 12}}
    [] OTHER -> {}

PartlySupplied(cls, A) ==
  \E g \in OptionalGroups(cls) : (\E i \in g : A[i] # None) /\ (\E i \in g : A[i] = None)

\* C5: constructing a surface of a kind with optional trailing groups in which
\* a group is only partly supplied (everything else valid) raises
\* INVALID_SURFACE_PARAMETER and constructs no surface.
C5_PartialGroupRejected ==
  (Called /\ MnemonicKnown /\ OneComment /\ NumberValid /\ TPInRange /\ FlagsValid
     /\ Len(InputParameters) >= 1 /\ ArityAccepted
     /\ \A i \in 1..InputKind.nreq : InputParameters[i] # None
     /\ PartlySupplied(InputClass, Bind(InputKind, InputParameters)))
  => (error = INVALID_SURFACE_PARAMETER /\ surface = None)

\* SurfaceX(1, 1, x1, r1, x2) returns a surface whose x2 is set and r2 is None
C5_PartialPairAccepted ==
  /\ pc = "returned"
  /\ call.api = "Kind"
  /\ call.cls = "SurfaceX"
  /\ Len(call.parameters) = 3
  /\ Val(surface).parameters[3] # None
  /\ Val(surface).parameters[4] = None

\* =====================================================================
\* C6
\* =====================================================================
\* C6: with everything else valid, a number outside [1, 99999999] raises
\* INVALID_SURFACE_NUMBER, and the numbers 1 and 99999999 construct the
\* surface, the transform/periodic field given or not.
C6_NumberRange ==
  (Called /\ MnemonicKnown /\ OneComment /\ FlagsValid /\ ParametersFull
     /\ (InputTP = None \/ TPInRange))
  => /\ ~NumberValid => (error = INVALID_SURFACE_NUMBER /\ surface = None)
     /\ (InputNumber \in {Some(1), Some(99999999)})
          => (error = NoError /\ Val(surface).number = Val(InputNumber))

\* PlaneNormalX and the others with number 99999999, all else valid and no
\* transform/periodic: Surface(...) raises TOOFEW_SURFACE_ENTRIES
C6_BoundaryNumberRaises ==
  /\ pc = "raised"
  /\ call.api = "Surface"
  /\ call.number = Some(99999999)
  /\ call.tp = None
  /\ MnemonicKnown /\ FlagsValid /\ ParametersFull
  /\ error = TOOFEW_SURFACE_ENTRIES

\* =====================================================================
\* C7
\* =====================================================================
\* C7: parsing a card with the mnemonic "cz" and no numeric parameter (the
\* rest of the card valid) fails with the too-few-parameters error.
C7_CzWithoutParameters ==
  (Called /\ IsCard /\ OneComment /\ NumberValid /\ (InputTP = None \/ TPInRange)
     /\ CardMnemonic = <<"c", "z">> /\ Len(call.card.params) = 0)
  => (error \in TooFewErrors /\ surface = None)

\* the card "1 cz" is parsed and the parse raises INVALID_SURFACE_PARAMETER
C7_CzRaisesInvalidParameter ==
  /\ pc = "raised"
  /\ IsCard
  /\ call.text = <<"1", " ", "c", "z">>
  /\ error = INVALID_SURFACE_PARAMETER

\* =====================================================================
\* C8
\* =====================================================================
\* C8: Surface(...) or Surface.from_mcnp with more parameters than the kind
\* accepts (everything else valid) fails, and with an error that is not the
\* too-few-parameters error.
C8_TooManyIsNotTooFew ==
  (Called /\ call.api # "Kind" /\ MnemonicKnown /\ OneComment
     /\ NumberValid /\ TPInRange /\ FlagsValid
     /\ Len(InputParameters) > MaxArity(InputMember))
  => (pc = "raised" /\ error \notin TooFewErrors)

\* the card "1 1 cz 3.0 3.5", two parameters for a kind of one, raises
\* TOOFEW_SURFACE_ENTRIES
C8_SurplusRaisesTooFew ==
  /\ pc = "raised"
  /\ IsCard
  /\ call.text = <<"1", " ", "1", " ", "c", "z", " ", "3", ".", "0", " ", "3", ".", "5">>
  /\ error = TOOFEW_SURFACE_ENTRIES

\* =====================================================================
\* C9
\* =====================================================================
\* the mnemonics of the six cones, as the claim lists them
ConeMnemonics ==
  [ConeParallelX |-> <<"k","/","x">>, ConeParallelY |-> <<"k","/","y">>,
   ConeParallelZ |-> <<"k","/","z">>, ConeOnX |-> <<"k","x">>,
   ConeOnY |-> <<"k","y">>, ConeOnZ |-> <<"k","z">>]

\* C9: every kind is selected by its own mnemonic (the mnemonic a surface of
\* the kind carries selects that kind again), each of the six cone mnemonics
\* selects its own cone (everything else on the card valid), and a token
\* outside the mnemonic set fails with INVALID_SURFACE_MNEMONIC.
C9_MnemonicLookup ==
  /\ (pc = "returned" /\ call.api = "Kind")
     => MatchClass(Val(surface).mnemonic, call.parameters) = call.cls
  /\ \A c \in DOMAIN ConeMnemonics :
       (Called /\ IsCard /\ CardMnemonic = ConeMnemonics[c] /\ NumberValid /\ TPInRange
          /\ Len(call.card.params) = Kinds[KindIndex(c)].nparams
          /\ \A i \in 1..Len(InputParameters) : InputParameters[i] # None)
       => (error = NoError /\ Val(surface).cls = c)
  /\ (Called /\ IsCard /\ CardMnemonic = <<"q">> /\ NumberValid)
     => (error = INVALID_SURFACE_MNEMONIC /\ surface = None)

\* the card "1 1 kz 3.0 3.5 4.0" is parsed and raises INVALID_SURFACE_MNEMONIC
C9_KzUnknown ==
  /\ pc = "raised"
  /\ IsCard
  /\ CardMnemonic = <<"k", "z">>
  /\ TPInRange
  /\ Len(call.card.params) = 3
  /\ error = INVALID_SURFACE_MNEMONIC

\* =====================================================================
\* C10
\* =====================================================================
\* C10: a constructed surface never has both transform and periodic set; a
\* positive transform/periodic input sets transform to it and leaves periodic
\* absent, a negative one sets periodic to it and leaves transform absent;
\* an input outside [-99999999, 999] constructs nothing, and raises
\* INVALID_SURFACE_TRANSFORMPERIODIC whenever the arguments checked before it
\* (the parameter count, the number) are valid.
C10_TransformPeriodic ==
  /\ pc = "returned"
     => /\ ~(Val(surface).transform # None /\ Val(surface).periodic # None)
        /\ (InputTP # None /\ Val(InputTP) > 0)
             => (Val(surface).transform = InputTP /\ Val(surface).periodic = None
                   /\ Val(InputTP) <= 999)
        /\ (InputTP # None /\ Val(InputTP) < 0)
             => (Val(surface).periodic = InputTP /\ Val(surface).transform = None
                   /\ Val(InputTP) >= -99999999)
  /\ (Called /\ InputTP # None /\ ~TPInRange)
     => /\ pc = "raised"
        /\ surface = None
        /\ (MnemonicKnown /\ OneComment /\ NumberValid
              /\ Len(InputParameters) >= 1 /\ ArityAccepted)
             => error = INVALID_SURFACE_TRANSFORMPERIODIC

\* a surface constructed from the transform/periodic input -99999999: periodic
\* is -99999999 and transform is absent
C10_PeriodicSet ==
  /\ pc = "returned"
  /\ InputTP = Some(-99999999)
  /\ Val(surface).periodic = Some(-99999999)
  /\ Val(surface).transform = None

\* =====================================================================
\* C11
\* =====================================================================
BothFlags == InputWhiteboundary = Some(TRUE) /\ InputReflecting = Some(TRUE)

\* C11: no constructed surface has is_reflecting and is_whiteboundary both
\* true; a construction given both true constructs nothing, and raises
\* INVALID_SURFACE_REFLECTING whenever the arguments checked before the flags
\* (parameter count, number, transform/periodic range) are valid; a surface
\* read by Surface.from_mcnp is a white boundary exactly when the card starts
\* with "+" and reflecting exactly when it starts with "*".
C11_FlagsExclusive ==
  /\ pc \in {"returned", "written", "write_raised", "reparsed", "described"}
     => ~(Val(surface).is_reflecting /\ Val(surface).is_whiteboundary)
  /\ (Called /\ ~IsCard /\ BothFlags)
     => /\ surface = None
        /\ (MnemonicKnown /\ NumberValid /\ (InputTP = None \/ TPInRange)
              /\ Len(InputParameters) >= 1 /\ ArityAccepted)
             => error = INVALID_SURFACE_REFLECTING
  /\ (Called /\ IsCard /\ error = NoError)
     => /\ Val(surface).is_whiteboundary = (call.text[1] = "+")
        /\ Val(surface).is_reflecting = (call.text[1] = "*")

\* Surface(...) given both flags true, all else valid, raised
\* INVALID_SURFACE_REFLECTING
C11_BothFlagsRaise ==
  /\ pc = "raised"
  /\ call.api = "Surface"
  /\ BothFlags
  /\ NumberValid /\ TPInRange
  /\ error = INVALID_SURFACE_REFLECTING

\* =====================================================================
\* C12
\* =====================================================================
\* C12: to_mcnp of a constructed surface returns a text (it does not raise)
\* that starts with "+" when the surface is a white boundary and with "*"
\* when it is reflecting, whose second word is the transform or the periodic
\* number when one is set, and that holds a "$" when the surface has an
\* inline comment.
C12_ToMcnpEmitsEveryField ==
  pc \in {"written", "write_raised"}
  => /\ werror = NoError
     /\ LET s == Val(surface)
            text == Val(source)
            words == Split(text, " ")
        IN /\ s.is_whiteboundary => text[1] = "+"
           /\ s.is_reflecting => text[1] = "*"
           /\ s.transform # None => words[2] = StrInt(Val(s.transform))
           /\ s.periodic # None => words[2] = StrInt(Val(s.periodic))
           /\ s.comment # None => Contains(text, "$")

\* the white-boundary surface of "+2 -1 PX 3.0 $ boundary" is written as
\* "2 px 3.0"
C12_PrefixPeriodicCommentDropped ==
  /\ pc = "written"
  /\ Val(surface).is_whiteboundary
  /\ Val(surface).periodic = Some(-1)
  /\ Val(surface).comment # None
  /\ source = Some(<<"2", " ", "p", "x", " ", "3", ".", "0">>)

\* =====================================================================
\* C13
\* =====================================================================
\* C13: the dictionary to_arguments returns has the number under "j", under
\* "+" whether the surface is a white boundary, under "*" whether it is
\* reflecting, the transform under "n", the mnemonic under "A" and the
\* parameters under "list".
C13_ToArgumentsKeys ==
  pc = "described"
  => LET s == Val(surface)
         d == Val(arguments)
     IN /\ d.j = s.number
        /\ d.plus = s.is_whiteboundary
        /\ d.star = s.is_reflecting
        /\ d.n = s.transform
        /\ d.A = s.mnemonic
        /\ d.list = s.parameters

\* the dictionary of the surface of a card that starts with "*" has "+" true
\* and "*" false
C13_KeysExchanged ==
  /\ pc = "described"
  /\ IsCard
  /\ call.text[1] = "*"
  /\ Val(arguments).plus
  /\ ~Val(arguments).star

\* =====================================================================
\* parse_ptrac.py: the tables and the lookups
\* =====================================================================
\* A str is held as Text(s) and an f-string with its values as Fmt(s, a); a
\* number read from the file is held as Some(n), None as None.
Text(s) == <<"str", s>>
Fmt(s, a) == <<"fmt", s, a>>
IsText(v) == Len(v) = 2 /\ v[1] = "str"
IsFmt(v) == Len(v) = 3 /\ v[1] = "fmt"

KeyError == "KeyError"
StopIteration == "StopIteration"
UnboundLocalError == "UnboundLocalError"

PARTICLE == (1 :> "neutron") @@ (2 :> "photon")

\* PARTICLE.get(nr), or "" after the message that the type is not implemented
get_particle(nr) == IF nr \in DOMAIN PARTICLE THEN Text(PARTICLE[nr]) ELSE Text("")

IDs ==
  <<"NPS", "first event type", "NCL", "NSF", "JPTAL", "TAL", "next event type",
    "NODE", "NSR", "NXS", "NTYN/MTP", "Surface number",
    "angle with surface normal", "termination type",
    "branch number for this history", "IPT", "NCL", "MAT", "NCP",
    "XXX", "YYY", "ZZZ", "UUU", "VVV", "WWW", "ERG", "WGT", "TME">>

\* IDs[i] raises KeyError for an i that is no key, None included
KnownID(i) == i # None /\ Val(i) \in DOMAIN IDs

\* every identifier named, one outside the table as "unknown"
parse_ID_Lenient(list) ==
  [err |-> NoError,
   names |-> [k \in 1..Len(list) |->
                IF KnownID(list[k]) THEN IDs[Val(list[k])] ELSE "unknown"]]

\* [IDs[i] for i in list]
parse_ID(list) ==
  IF \A k \in 1..Len(list) : KnownID(list[k])
  THEN [err |-> NoError, names |-> [k \in 1..Len(list) |-> IDs[Val(list[k])]]]
  ELSE [err |-> KeyError, names |-> <<>>]

event_type ==
  (1000 :> "initial source") @@ (3000 :> "surface") @@ (4000 :> "collision")
    @@ (5000 :> "termination") @@ (9000 :> "final")

bank_event_type ==
  <<<<1, "DXTRAN Track", TRUE>>,
    <<2, "Energy Split", FALSE>>,
    <<3, "Weight-Window Surface Split", FALSE>>,
    <<4, "Weight-Window Collision Split", TRUE>>,
    <<5, "Forced Collision-Uncollided Part", FALSE>>,
    <<6, "Importance Split", FALSE>>,
    <<7, "Neutron from Neutron ( n , xn ) ( n , f ) and Secondary Particles from Library Protons", TRUE>>,
    <<8, "Photon from Neutron", TRUE>>,
    <<9, "Photon from Double Fluorescence", TRUE>>,
    <<10, "Photon from Annihilation", FALSE>>,
    <<11, "Electron from Photoelectric", TRUE>>,
    <<12, "Electron from Compton", TRUE>>,
    <<13, "Electron from Pair Production", TRUE>>,
    <<14, "Auger Electron from Photon/X-ray", TRUE>>,
    <<15, "Positron from Pair Production", FALSE>>,
    <<16, "Bremsstrahlung from Electron", TRUE>>,
    <<17, "Knock-on Electron", FALSE>>,
    <<18, "X-rays from Electron", FALSE>>,
    <<19, "Photon from Neutron - Multigroup", TRUE>>,
    <<20, "Neutron ( n , f ) - Multigroup", TRUE>>,
    <<21, "Neutron ( n , xn ) k- Multigroup", TRUE>>,
    <<22, "Photo from Photon - Multigroup", TRUE>>,
    <<23, "Adjoint Weight Split - Multigroup", FALSE>>,
    <<24, "Weight-Window Pseudo-Collision Split", FALSE>>,
    <<25, "Secondary Particles from Photonuclear", TRUE>>,
    <<26, "DXTRAN annihilation photon from pulse-height tally variance reduction", TRUE>>,
    <<30, "Light Ions from Neutrons", TRUE>>,
    <<31, "Light Ions from Protons", TRUE>>,
    <<32, "Library Neutrons from Model Neutrons", FALSE>>,
    <<33, "Secondary Particles from Inelastic Nuclear Interactions", FALSE>>,
    <<34, "Secondary Particles from Elastic Nuclear Interactions", FALSE>>>>

BankKeys == {bank_event_type[k][1] : k \in 1..Len(bank_event_type)}
BankEntry(key) ==
  LET k == CHOOSE k \in 1..Len(bank_event_type) : bank_event_type[k][1] = key
  IN [name |-> bank_event_type[k][2], extra |-> bank_event_type[k][3]]

\* lookup_ntyn(idx), neutron=True as Event.parse calls it
lookup_ntyn(idx) ==
  CASE idx = 1 -> Text("Inelastic S(alpha, beta)")
    [] idx = 2 -> Text("Elastic S(alpha, beta)")
    [] idx = -99 -> Text("Elastic scatter/Inelastic scatter")
    [] idx > 5 -> Text("ENDF Reaction ID")
    [] OTHER -> Fmt("Error ntyn lookup: shouldn't happen", <<idx>>)

\* parse_event with 9000 taken for a bank code
parse_event_NoFinal(event) ==
  IF event \in DOMAIN event_type /\ event # 9000 THEN event_type[event] ELSE "bank"

parse_event(event) == IF event \in DOMAIN event_type THEN event_type[event] ELSE "bank"

\* the [name, extra] entry, or None where the function returns nothing
parse_bank(event) ==
  IF event > 1999
  THEN (IF event - 2000 \in BankKeys THEN Some(BankEntry(event - 2000)) ELSE None)
  ELSE IF event < -1999
  THEN (IF (event * (-1)) - 2000 \in BankKeys
        THEN Some(BankEntry((event * (-1)) - 2000)) ELSE None)
  ELSE None

termination_type ==
  <<"Escape", "Energy cutoff", "Time cutoff", "Weight window", "Cell importance",
    "Weight cutoff", "Energy importance", "DXTRAN", "Forced collision",
    "Exponential transform">>

termination_type_neutron ==
  (11 :> "Downscattering") @@ (12 :> "Capture") @@ (13 :> "Loss to (x, xn)")
    @@ (14 :> "Loss to fission") @@ (15 :> "Nuclear Interactions")
    @@ (16 :> "Particle decay") @@ (17 :> "Tabular boundary")

termination_type_photon ==
  (11 :> " Compton scatter") @@ (12 :> "Capture") @@ (13 :> "Pair production")
    @@ (14 :> "Photonuclear")

\* a dictionary lookup: the value, or KeyError
Lookup(table, key) ==
  IF key \in DOMAIN table THEN [err |-> NoError, val |-> Text(table[key])]
  ELSE [err |-> KeyError, val |-> None]

get_termination_type(idx, particle) ==
  IF idx < 11 THEN Lookup(termination_type, idx)
  ELSE IF particle = Text("neutron") THEN Lookup(termination_type_neutron, idx)
  ELSE IF particle = Text("photon") THEN Lookup(termination_type_photon, idx)
  ELSE [err |-> NoError,
        val |-> Fmt("need to implement termination type", <<idx, particle>>)]

\* =====================================================================
\* parse_ptrac.py: Header.parse
\* =====================================================================
\* FortranRecordReader(format).read(line) for a format of n numeric fields:
\* n values, None for each field the line has no text for
FortranRead(line, n) == [i \in 1..n |-> IF i <= Len(line) THEN Some(line[i]) ELSE None]

\* the lines Header.parse reads before the line of counts: the -1 line, the
\* program line, the title line and three lines of keyword values
PreambleLines == 6
\* "(1x,20i5)", "(1x,30i4)", "(1x,8e10.0)", "(1x,9e13.5)"
CountsPerLine == 20
IdsPerLine == 30
JFields == 8
PFields == 9

Eof == consumed = Len(fin)
NextLine == fin[consumed + 1]

\* L[a:b]
Slice(L, a, b) == SubSeq(L, a + 1, b)

Categories == <<"nps", "initial source", "bank", "surface", "collision", "termination">>

\* Header()
NewHeader == [N1 |-> None, IDS |-> <<>>]

PtracRaise(e) ==
  /\ ppc' = "raised"
  /\ perror' = e

\* the identifier loop goes on while this holds, read one past the need
MoreNeeded_Inclusive(got, need) == got <= need

\* "while got < need:"
MoreNeeded(got, need) == got < need

\* the six lines before the counts
ReadPreamble ==
  /\ ppc = "start"
  /\ IF Len(fin) < PreambleLines
     THEN PtracRaise(StopIteration) /\ UNCHANGED <<consumed, header>>
     ELSE /\ consumed' = PreambleLines
          /\ header' = Some(NewHeader)
          /\ ppc' = "counts"
          /\ UNCHANGED perror
  /\ UNCHANGED <<input, fin, scan, hist, Jline, delivered, lines>>
  /\ UNCHANGED <<surfaceVars, restVars>>

\* the line of counts and the offsets computed from it
ReadCounts ==
  /\ ppc = "counts"
  /\ IF Eof THEN PtracRaise(StopIteration) /\ UNCHANGED <<consumed, header, scan>>
     ELSE LET N == FortranRead(NextLine, CountsPerLine)
          IN IF \E i \in 1..11 : N[i] = None
             THEN /\ PtracRaise(TypeError)
                  /\ consumed' = consumed + 1
                  /\ header' = Some([Val(header) EXCEPT !.N1 = N[1]])
                  /\ UNCHANGED scan
             ELSE LET N1 == Val(N[1])
                      N_src == N1 + Val(N[2]) + Val(N[3])
                      N_bnk == N_src + Val(N[4]) + Val(N[5])
                      N_sur == N_bnk + Val(N[6]) + Val(N[7])
                      N_col == N_sur + Val(N[8]) + Val(N[9])
                      N_ter == N_col + Val(N[10]) + Val(N[11])
                  IN /\ header' = Some([Val(header) EXCEPT !.N1 = N[1]])
                     /\ scan' = Some([N_src |-> N_src, N_bnk |-> N_bnk, N_sur |-> N_sur,
                                      N_col |-> N_col, N_ter |-> N_ter, need |-> N_ter,
                                      L |-> <<>>, got |-> 0])
                     /\ consumed' = consumed + 1
                     /\ ppc' = "ids"
                     /\ UNCHANGED perror
  /\ UNCHANGED <<input, fin, hist, Jline, delivered, lines>>
  /\ UNCHANGED <<surfaceVars, restVars>>

\* L and got once a line of p fields is read and added
Extended(p) ==
  LET L == Val(scan).L \o FortranRead(NextLine, p)
  IN [Val(scan) EXCEPT !.L = L, !.got = Len(L)]

\* the first line of identifiers, always read, with "(1x,30i4)"
ReadIdentifiers ==
  /\ ppc = "ids"
  /\ IF Eof THEN PtracRaise(StopIteration) /\ UNCHANGED <<consumed, scan>>
     ELSE /\ scan' = Some(Extended(IdsPerLine))
          /\ consumed' = consumed + 1
          /\ ppc' = IF MoreNeeded(Extended(IdsPerLine).got, Val(scan).need)
                    THEN "more_ids" ELSE "layout"
          /\ UNCHANGED perror
  /\ UNCHANGED <<input, fin, header, hist, Jline, delivered, lines>>
  /\ UNCHANGED <<surfaceVars, restVars>>

\* one turn of "while got < need:"
ReadMoreIdentifiers ==
  /\ ppc = "more_ids"
  /\ IF Eof THEN PtracRaise(StopIteration) /\ UNCHANGED <<consumed, scan>>
     ELSE LET left == Val(scan).need - Val(scan).got
              p == IF left > IdsPerLine THEN IdsPerLine ELSE left
          IN /\ scan' = Some(Extended(p))
             /\ consumed' = consumed + 1
             /\ ppc' = IF MoreNeeded(Extended(p).got, Val(scan).need)
                       THEN "more_ids" ELSE "layout"
             /\ UNCHANGED perror
  /\ UNCHANGED <<input, fin, header, hist, Jline, delivered, lines>>
  /\ UNCHANGED <<surfaceVars, restVars>>

\* the offsets with the source's end taken for the bank's
Offsets_SourceToBank ==
  <<0, Val(Val(header).N1), Val(scan).N_bnk, Val(scan).N_bnk, Val(scan).N_sur,
    Val(scan).N_col, Val(scan).N_ter>>

\* where the layout of each category starts, and where the last ends
Offsets ==
  <<0, Val(Val(header).N1), Val(scan).N_src, Val(scan).N_bnk, Val(scan).N_sur,
    Val(scan).N_col, Val(scan).N_ter>>

\* parse_ID of the slice of the k-th category
CategoryIDs(k) == parse_ID(Slice(Val(scan).L, Offsets[k], Offsets[k + 1]))

\* the categories assigned before the first parse_ID that raises
Assigned ==
  {k \in 1..Len(Categories) : \A j \in 1..k : CategoryIDs(j).err = NoError}

\* self.IDS = {} and the six assignments, in order
AssignLayouts ==
  /\ ppc = "layout"
  /\ header' = Some([Val(header) EXCEPT
                       !.IDS = [c \in {Categories[k] : k \in Assigned} |->
                                  CategoryIDs(CHOOSE k \in 1..Len(Categories) :
                                                Categories[k] = c).names]])
  /\ IF Assigned = 1..Len(Categories)
     THEN ppc' = "history" /\ UNCHANGED perror
     ELSE PtracRaise(KeyError)
  /\ UNCHANGED <<input, fin, consumed, scan, hist, Jline, delivered, lines>>
  /\ UNCHANGED <<surfaceVars, restVars>>

\* =====================================================================
\* parse_ptrac.py: History, Event, read_file
\* =====================================================================
\* the values that are not None, "[i for i in line if i is not None]"
NotNone(line) == SelectSeq(line, LAMBDA v : v # None)

\* Python's truth of a number or None
Truthy(v) == v # None /\ Val(v) # 0

\* History(line, header): the "(1x,{N1-1}i10,e13.5)" format gives N1 values.
\* The names n, a, b are bound only by the branch for the length, and
\* self.n = int(n), self.a = a, self.b = b read them whatever the length.
NewHistory(line, h) ==
  LET len == Val(h.N1)
      v == FortranRead(line, len)
  IN IF len \notin 2..6 THEN Raise(UnboundLocalError)
     ELSE IF v[2] = None \/ v[1] = None THEN Raise(TypeError)
     ELSE IF len < 4 THEN Raise(UnboundLocalError)
     ELSE Return([n |-> Val(v[1]),
                  a |-> v[3],
                  b |-> v[4],
                  c |-> IF len >= 5 THEN v[5] ELSE None,
                  d |-> IF len >= 6 THEN v[6] ELSE None,
                  current_event |-> parse_event(Val(v[2])),
                  current_event_id |-> Val(v[2]),
                  history |-> <<>>])

\* the names Event.parse pops whatever the event is
Popped ==
  {"IPT", "NSR", "NODE", "Surface number", "NCL", "MAT",
   "branch number for this history", "angle with surface normal",
   "termination type", "XXX", "YYY", "ZZZ", "UUU", "VVV", "WWW", "NCP", "ERG",
   "WGT", "TME", "next event type"}

\* the next event's id read from the end of the record
NextEventId_Last(line) == line[Len(line)]

\* "int(line[0])", the id of the event after this one
NextEventId(line) == line[1]

\* Event(parent=hist, ...) before parse
NewEvent(h) ==
  [event_type |-> h.current_event, bank_extra |-> Some(FALSE), ntyn |-> None,
   nxs |-> None, particle |-> None, source |-> None, node |-> None,
   surface |-> None, cell_number |-> None, material |-> None,
   branch_number |-> None, angle |-> None, termination_type |-> None,
   pos |-> None, dir |-> None, ncp |-> None, energy |-> None, weight |-> None,
   time |-> None, misc |-> None]

\* Event(parent=h, line=line, header=hd): the event, and the history with
\* the next event's id and category set.  An empty line is not parsed.
ParseEvent(h, line, hd) ==
  LET layout == hd.IDS[h.current_event]
      m == IF Len(layout) < Len(line) THEN Len(layout) ELSE Len(line)
      Keys == {layout[i] : i \in 1..m}
      \* dict(zip(layout, line)): the last value given to a name stays
      D(name) == line[CHOOSE i \in 1..m :
                        layout[i] = name /\ \A j \in (i+1)..m : layout[j] # name]
      Pop(name) == IF name \in Keys THEN Some(D(name)) ELSE None
      bank == IF h.current_event = "bank" THEN parse_bank(h.current_event_id) ELSE None
      type == IF h.current_event = "bank" THEN Val(bank).name ELSE h.current_event
      extra == IF h.current_event = "bank" THEN Some(Val(bank).extra) ELSE None
      react == (extra # None /\ Val(extra)) \/ type = "collision"
      ipt == Pop("IPT")
      particle == IF Truthy(ipt) THEN get_particle(Val(ipt)) ELSE ipt
      code == Pop("termination type")
      reason == get_termination_type(Val(code), particle)
      x == Pop("XXX")
      u == Pop("UUU")
      rest == (Keys \ Popped) \ (IF react THEN {"NTYN/MTP", "NXS"} ELSE {})
  IN IF Len(line) = 0 THEN [err |-> NoError, event |-> NewEvent(h), hist |-> h]
     ELSE IF h.current_event = "bank" /\ bank = None
       THEN [err |-> TypeError, event |-> None, hist |-> h]
     ELSE IF react /\ ("NTYN/MTP" \notin Keys \/ "NXS" \notin Keys)
       THEN [err |-> KeyError, event |-> None, hist |-> h]
     ELSE IF Truthy(code) /\ reason.err # NoError
       THEN [err |-> reason.err, event |-> None, hist |-> h]
     ELSE IF x # None /\ (Pop("YYY") = None \/ Pop("ZZZ") = None)
       THEN [err |-> TypeError, event |-> None, hist |-> h]
     ELSE IF u # None /\ (Pop("VVV") = None \/ Pop("WWW") = None)
       THEN [err |-> TypeError, event |-> None, hist |-> h]
     ELSE [err |-> NoError,
           event |->
             [event_type |-> type,
              bank_extra |-> extra,
              ntyn |-> IF react THEN lookup_ntyn(D("NTYN/MTP")) ELSE None,
              nxs |-> IF react THEN Pop("NXS") ELSE None,
              particle |-> particle,
              source |-> Pop("NSR"),
              node |-> Pop("NODE"),
              surface |-> Pop("Surface number"),
              cell_number |-> Pop("NCL"),
              material |-> Pop("MAT"),
              branch_number |-> Pop("branch number for this history"),
              angle |-> Pop("angle with surface normal"),
              termination_type |-> IF Truthy(code) THEN reason.val ELSE code,
              pos |-> IF x # None THEN <<Val(x), D("YYY"), D("ZZZ")>> ELSE None,
              dir |-> IF u # None THEN <<Val(u), D("VVV"), D("WWW")>> ELSE None,
              ncp |-> Pop("NCP"),
              energy |-> Pop("ERG"),
              weight |-> Pop("WGT"),
              time |-> Pop("TME"),
              misc |-> [name \in rest |-> D(name)]],
           hist |-> [h EXCEPT !.current_event_id = NextEventId(line),
                              !.current_event = parse_event(NextEventId(line))]]

\* a loop that a termination event ends too
LoopEnds_AtTermination(h) == h.current_event \in {"final", "termination"}

\* "while hist.current_event != 'final':" is over
LoopEnds(h) == h.current_event = "final"

\* "while hist.current_event != 'final':" is left: the history is handed to
\* handle_history and the next line read is the next history's first
Deliver(h) ==
  /\ delivered' = Append(delivered, h)
  /\ lines' = [lines EXCEPT ![Len(lines)].last = Some(consumed')]
  /\ hist' = None
  /\ ppc' = "history"

\* "line = next(fin); hist = History(line, header)"; StopIteration here ends
\* read_file, which returns the header
StartHistory ==
  /\ ppc = "history"
  /\ IF Eof
     THEN /\ ppc' = "done"
          /\ UNCHANGED <<consumed, hist, delivered, lines, perror>>
     ELSE LET r == NewHistory(NextLine, Val(header))
          IN /\ consumed' = consumed + 1
             /\ IF r.err # NoError
                THEN PtracRaise(r.err) /\ UNCHANGED <<hist, delivered, lines>>
                ELSE /\ UNCHANGED perror
                     /\ IF LoopEnds(Val(r.obj))
                        THEN /\ delivered' = Append(delivered, Val(r.obj))
                             /\ lines' = Append(lines, [first |-> consumed + 1,
                                                        last |-> Some(consumed + 1)])
                             /\ hist' = None
                             /\ ppc' = "history"
                        ELSE /\ hist' = r.obj
                             /\ lines' = Append(lines, [first |-> consumed + 1,
                                                        last |-> None])
                             /\ ppc' = "J"
                             /\ UNCHANGED delivered
  /\ UNCHANGED <<input, fin, header, scan, Jline>>
  /\ UNCHANGED <<surfaceVars, restVars>>

\* the J-line of an event; StopIteration here is caught like any other
ReadJLine ==
  /\ ppc = "J"
  /\ IF Eof
     THEN ppc' = "done" /\ UNCHANGED <<consumed, Jline>>
     ELSE /\ Jline' = Some(NotNone(FortranRead(NextLine, JFields)))
          /\ consumed' = consumed + 1
          /\ ppc' = "P"
  /\ UNCHANGED <<input, fin, header, scan, hist, delivered, lines, perror>>
  /\ UNCHANGED <<surfaceVars, restVars>>

\* the P-line of an event, the event decoded from both lines and added
ReadPLine ==
  /\ ppc = "P"
  /\ IF Eof
     THEN ppc' = "done" /\ UNCHANGED <<consumed, Jline, hist, delivered, lines, perror>>
     ELSE LET Pline == NotNone(FortranRead(NextLine, PFields))
              event_line == [i \in 1..Len(Val(Jline) \o Pline) |-> Val((Val(Jline) \o Pline)[i])]
              r == ParseEvent(Val(hist), event_line, Val(header))
              h == [r.hist EXCEPT !.history = Append(@, r.event)]
          IN /\ consumed' = consumed + 1
             /\ Jline' = None
             /\ IF r.err # NoError
                THEN PtracRaise(r.err) /\ UNCHANGED <<hist, delivered, lines>>
                ELSE /\ UNCHANGED perror
                     /\ IF LoopEnds(h)
                        THEN Deliver(h)
                        ELSE /\ hist' = Some(h)
                             /\ ppc' = "J"
                             /\ UNCHANGED <<delivered, lines>>
  /\ UNCHANGED <<input, fin, header, scan>>
  /\ UNCHANGED <<surfaceVars, restVars>>

PtracNext ==
  \/ ReadPreamble
  \/ ReadCounts
  \/ ReadIdentifiers
  \/ ReadMoreIdentifiers
  \/ AssignLayouts
  \/ StartHistory
  \/ ReadJLine
  \/ ReadPLine

\* =====================================================================
\* parse_ptrac.py: the files read
\* =====================================================================
\* A file is written from counts N, the identifiers ids, and histories; a
\* history is its particle number n and its events, each with the id that
\* announces it (on the line before) and the values of its J-line after the
\* next event's id.  Only the first cut lines of the histories are kept.
MaxEvents == 2
MaxHistories == 2

FinalId == 9000

\* the identifiers as the writer puts them on lines of 30 (one line, empty,
\* for none)
RECURSIVE Chunks(_)
Chunks(ids) ==
  IF Len(ids) <= IdsPerLine THEN <<ids>>
  ELSE <<SubSeq(ids, 1, IdsPerLine)>> \o Chunks(SubSeq(ids, IdsPerLine + 1, Len(ids)))

\* the I-line of a history: n, the id of its first event, then what the
\* other fields of the nps layout hold
ILine(h, N1) ==
  [j \in 1..N1 |-> IF j = 1 THEN h.n
                   ELSE IF j = 2 THEN (IF Len(h.steps) = 0 THEN FinalId ELSE h.steps[1].id)
                   ELSE j]

\* the J-line and the P-line of the i-th event of a history
EventLines(h, i) ==
  << <<IF i < Len(h.steps) THEN h.steps[i + 1].id ELSE FinalId>> \o h.steps[i].vals,
     IF "pvals" \in DOMAIN h.steps[i] THEN h.steps[i].pvals ELSE <<2>> >>

RECURSIVE EventsLines(_, _)
EventsLines(h, i) ==
  IF i > Len(h.steps) THEN <<>> ELSE EventLines(h, i) \o EventsLines(h, i + 1)

HistoryLines(h, N1) == <<ILine(h, N1)>> \o EventsLines(h, 1)

RECURSIVE BodyLines(_, _)
BodyLines(hs, N1) ==
  IF Len(hs) = 0 THEN <<>> ELSE HistoryLines(Head(hs), N1) \o BodyLines(Tail(hs), N1)

FileOf(i) ==
  [k \in 1..PreambleLines |-> <<>>] \o <<i.N>> \o Chunks(i.ids)
    \o SubSeq(BodyLines(i.histories, i.N[1]), 1, i.cut)

Whole(N, ids, hs) ==
  [N |-> N, ids |-> ids, histories |-> hs, cut |-> Len(BodyLines(hs, N[1]))]

\* ---- files that try the header
UnitCounts == <<4, 1, 0, 1, 0, 1, 0, 1, 0, 1, 0>>
UnitTotal ==
  UnitCounts[1] + UnitCounts[2] + UnitCounts[3] + UnitCounts[4] + UnitCounts[5]
    + UnitCounts[6] + UnitCounts[7] + UnitCounts[8] + UnitCounts[9] + UnitCounts[10]
    + UnitCounts[11]
Totals == {9, 10, 29, 30, 31, 59, 60, 61}
UnknownIds == {0, 29}

\* counts with the given total, the k-th taking what the others leave
CountsOf(total, k) ==
  [i \in 1..13 |-> IF i > 11 THEN 0
                   ELSE IF i = k THEN UnitCounts[i] + total - UnitTotal
                   ELSE UnitCounts[i]]

\* identifiers 1, 2, ..., 28, 1, ... with one of them replaced, or none
IdsOf(total, at, id) ==
  [i \in 1..total |-> IF i = at THEN id ELSE ((i - 1) % Len(IDs)) + 1]

EmptyHistory(n) == [n |-> n, steps |-> <<>>]

HeaderInput(i) ==
  \E total \in Totals, k \in 1..11, hs \in {<<>>, <<EmptyHistory(7)>>} :
    \/ i = Whole(CountsOf(total, k), IdsOf(total, 0, 0), hs)
    \/ \E at \in {1, IdsPerLine, IdsPerLine + 1, total} \cap 1..total, id \in UnknownIds :
         i = Whole(CountsOf(total, k), IdsOf(total, at, id), hs)

\* ---- files that try the histories
\* nps: N1 identifiers; initial source: 7 16 | 26; bank: 7 16 11 10 | 26;
\* surface: 7 12 | 26; collision: 7 11 10 | 26; termination: 7 14 16 | 26
EventCounts(N1) == <<N1, 2, 1, 4, 1, 2, 1, 3, 1, 3, 1, 0, 0>>
EventIds(N1) ==
  SubSeq(<<1, 2, 6, 5, 15, 8>>, 1, N1)
    \o <<7, 16, 26>> \o <<7, 16, 11, 10, 26>> \o <<7, 12, 26>>
    \o <<7, 11, 10, 26>> \o <<7, 14, 16, 26>>

BankCodes == {2002, 2008, -2002, 2027, 17, -5}
TerminationCodes == {-1, 0, 1, 10, 11, 14, 15, 17, 18}
ParticleCodes == {1, 2, 3}

\* events that always decode: a source event of a neutron, a surface crossing
PlainSteps == {[id |-> 1000, vals |-> <<1>>], [id |-> 3000, vals |-> <<5>>]}

AnySteps ==
  PlainSteps
    \cup {[id |-> 1000, vals |-> <<p>>] : p \in {2, 3}}
    \cup {[id |-> 4000, vals |-> <<t, 4>>] : t \in {1, 7}}
    \cup {[id |-> b, vals |-> <<1, 2, 4>>] : b \in BankCodes}
    \cup {[id |-> 5000, vals |-> <<t, p>>] : t \in TerminationCodes, p \in ParticleCodes}

\* k plain events
PlainHistories(n) ==
  UNION {[steps : [1..k -> PlainSteps], n : {n}] : k \in 0..MaxEvents}

\* plain events, with any event as the last
AnyHistories(n) ==
  {EmptyHistory(n)}
    \cup {[n |-> n, steps |-> Append(h.steps, s)] :
            h \in {g \in PlainHistories(n) : Len(g.steps) < MaxEvents}, s \in AnySteps}

\* the histories after the first: m of them, each of k surface crossings
Followers ==
  {<<>>} \cup {[j \in 1..m |-> [n |-> 8 + j,
                               steps |-> [e \in 1..k |-> [id |-> 3000, vals |-> <<5>>]]]] :
                 m \in 1..(MaxHistories - 1), k \in 0..MaxEvents}

EventInput(i) ==
  \E h \in AnyHistories(7), f \in Followers :
    i = Whole(EventCounts(4), EventIds(4), <<h>> \o f)

\* every length of I-line, and every place the file can end
CutInput(i) ==
  \E N1 \in 2..6, h \in PlainHistories(7), f \in Followers :
    \E cut \in 0..Len(BodyLines(<<h>> \o f, N1)) :
      i = [Whole(EventCounts(N1), EventIds(N1), <<h>> \o f) EXCEPT !.cut = cut]

\* ---- files that try the layouts
\* the J and P identifiers of initial source, bank, surface, collision and
\* termination events, as EventIds has them
DefaultLayouts ==
  << <<7, 16>>, <<26>>, <<7, 16, 11, 10>>, <<26>>, <<7, 12>>, <<26>>,
     <<7, 11, 10>>, <<26>>, <<7, 14, 16>>, <<26>> >>

\* one event, of the k-th category after nps, with the J and P identifiers
\* its category is given and the values its two lines hold
LayoutCases ==
  {[id |-> 4000, k |-> 4, J |-> <<7, 10>>, P |-> <<26>>, vals |-> <<4>>, pvals |-> <<2>>],
   [id |-> 4000, k |-> 4, J |-> <<7, 11>>, P |-> <<26>>, vals |-> <<7>>, pvals |-> <<2>>],
   [id |-> 4000, k |-> 4, J |-> <<7, 11, 10>>, P |-> <<20, 21, 22>>,
    vals |-> <<7, 4>>, pvals |-> <<1, 2, 3>>],
   [id |-> 2008, k |-> 2, J |-> <<7, 16>>, P |-> <<26>>, vals |-> <<1>>, pvals |-> <<2>>],
   [id |-> 2002, k |-> 2, J |-> <<7, 16>>, P |-> <<26>>, vals |-> <<1>>, pvals |-> <<2>>],
   [id |-> 1000, k |-> 1, J |-> <<7>>, P |-> <<26>>, vals |-> <<>>, pvals |-> <<2>>],
   [id |-> 3000, k |-> 3, J |-> <<7, 12>>, P |-> <<20, 21>>,
    vals |-> <<5>>, pvals |-> <<1, 2>>],
   [id |-> 3000, k |-> 3, J |-> <<7, 3, 17>>, P |-> <<26>>,
    vals |-> <<3, 4>>, pvals |-> <<2>>],
   [id |-> 3000, k |-> 3, J |-> <<7, 4, 5>>, P |-> <<6, 26>>,
    vals |-> <<8, 9>>, pvals |-> <<6, 2>>],
   [id |-> 3000, k |-> 3, J |-> <<7, 12, 11>>, P |-> <<26>>,
    vals |-> <<5, 7>>, pvals |-> <<2>>]}

\* the layouts with those of the case in the place of its category's
LayoutsOf(c) ==
  [j \in 1..Len(DefaultLayouts) |->
     IF j = 2 * c.k - 1 THEN c.J ELSE IF j = 2 * c.k THEN c.P ELSE DefaultLayouts[j]]

RECURSIVE Flatten(_)
Flatten(ss) == IF Len(ss) = 0 THEN <<>> ELSE Head(ss) \o Flatten(Tail(ss))

LayoutInput(i) ==
  \E c \in LayoutCases, f \in Followers :
    LET ls == LayoutsOf(c)
    IN i = Whole(<<4>> \o [j \in 1..Len(ls) |-> Len(ls[j])] \o <<0, 0>>,
                 <<1, 2, 6, 5>> \o Flatten(ls),
                 <<[n |-> 7,
                    steps |-> <<[id |-> c.id, vals |-> c.vals, pvals |-> c.pvals]>>]>> \o f)

SurfaceIdle ==
  /\ pc = "idle"
  /\ call = None
  /\ surface = None
  /\ error = NoError
  /\ source = None
  /\ werror = NoError
  /\ surface2 = None
  /\ error2 = NoError
  /\ arguments = None

PtracInit ==
  /\ SurfaceIdle
  /\ RestIdle
  /\ \/ HeaderInput(input)
     \/ EventInput(input)
     \/ CutInput(input)
     \/ LayoutInput(input)
  /\ fin = FileOf(input)
  /\ consumed = 0
  /\ ppc = "start"
  /\ header = None
  /\ scan = None
  /\ hist = None
  /\ Jline = None
  /\ delivered = <<>>
  /\ lines = <<>>
  /\ perror = NoError

PtracSpec == PtracInit /\ [][PtracNext]_vars

\* =====================================================================
\* What a file holds, whatever read_file makes of it
\* =====================================================================
\* the total the counts declare
DeclaredTotal == input.N[1] + input.N[2] + input.N[3] + input.N[4] + input.N[5]
                   + input.N[6] + input.N[7] + input.N[8] + input.N[9] + input.N[10]
                   + input.N[11]

\* the last line of the identifier block
HeaderEnd == PreambleLines + 1 + Len(Chunks(input.ids))

\* where each category's identifiers start in the run, and where the last end
InputOffsets ==
  <<0,
    input.N[1],
    input.N[1] + input.N[2] + input.N[3],
    input.N[1] + input.N[2] + input.N[3] + input.N[4] + input.N[5],
    input.N[1] + input.N[2] + input.N[3] + input.N[4] + input.N[5] + input.N[6] + input.N[7],
    input.N[1] + input.N[2] + input.N[3] + input.N[4] + input.N[5] + input.N[6] + input.N[7]
      + input.N[8] + input.N[9],
    DeclaredTotal>>

\* the positions of the run that hold no identifier of the table
UnknownPositions == {i \in 1..Len(input.ids) : input.ids[i] \notin 1..28}

\* every event of every history is one that always decodes
PlainInput ==
  \A i \in 1..Len(input.histories) :
    \A j \in 1..Len(input.histories[i].steps) : input.histories[i].steps[j] \in PlainSteps

\* the line counts at which the histories of the file end
HistoryEnds ==
  {Len(BodyLines(SubSeq(input.histories, 1, j), input.N[1])) : j \in 0..Len(input.histories)}

\* the last event of the first history, when it has one and every line of
\* that history is in the file
LastStep == input.histories[1].steps[Len(input.histories[1].steps)]
HasLastStep ==
  /\ Len(input.histories) >= 1
  /\ Len(input.histories[1].steps) >= 1
  /\ input.cut >= Len(HistoryLines(input.histories[1], input.N[1]))
  /\ \A j \in 1..(Len(input.histories[1].steps) - 1) : input.histories[1].steps[j] \in PlainSteps

\* =====================================================================
\* C14
\* =====================================================================
\* C14: when Header.parse has read the identifier block it has consumed all
\* the lines of the block and none after it, whatever their number, and the
\* first n_nps + (n_src1+n_src2) + ... + (n_ter1+n_ter2) entries of L are the
\* identifiers of the file, in order, the entries after them holding none;
\* while it still reads, a line of the block is left to read.
C14_IdentifierRunConsumed ==
  /\ ppc = "layout"
     => /\ Val(scan).need = DeclaredTotal
        /\ consumed = HeaderEnd
        /\ SubSeq(Val(scan).L, 1, DeclaredTotal)
             = [i \in 1..DeclaredTotal |-> Some(input.ids[i])]
        /\ \A i \in (DeclaredTotal + 1)..Len(Val(scan).L) : Val(scan).L[i] = None
  /\ ppc \in {"ids", "more_ids"} => consumed < HeaderEnd
  /\ ppc \in {"history", "J", "P", "done"} => consumed >= HeaderEnd

\* 60 identifiers, an exact multiple of 30, read from two lines
C14_TwoFullLines ==
  /\ ppc = "layout"
  /\ DeclaredTotal = 2 * IdsPerLine
  /\ Val(scan).got = 2 * IdsPerLine
  /\ consumed = PreambleLines + 3

\* =====================================================================
\* C15
\* =====================================================================
\* C15: when the identifier run holds an identifier outside 1..28, read_file
\* never goes on to the histories and never returns a header; Header.parse
\* raises KeyError, and the layout of the category that holds the unknown
\* identifier is not assigned.
C15_UnknownIdentifierFails ==
  UnknownPositions # {}
  => /\ ppc \notin {"history", "J", "P", "done"}
     /\ delivered = <<>>
     /\ ppc = "raised"
        => /\ perror = KeyError
           /\ \A k \in 1..Len(Categories) :
                (\E i \in UnknownPositions : InputOffsets[k] < i /\ i <= InputOffsets[k + 1])
                => Categories[k] \notin DOMAIN Val(header).IDS

\* the identifier 29 as the 31st of the run, on the second line: KeyError
C15_UnknownOnSecondLine ==
  /\ ppc = "raised"
  /\ perror = KeyError
  /\ Len(input.ids) > IdsPerLine
  /\ input.ids[IdsPerLine + 1] = 29
  /\ consumed = HeaderEnd

\* =====================================================================
\* C16
\* =====================================================================
\* C16: with an nps layout of 2 to 6 identifiers and an I-line that holds a
\* number for each, starting the history does not fail for a field that is
\* missing: it raises no UnboundLocalError, and the history it starts has the
\* first field as its particle id and the fields after the second stored.
C16_ILineLengths ==
  (ppc # "start" /\ input.N[1] \in 2..6 /\ UnknownPositions = {} /\ input.cut >= 1)
  => /\ perror # UnboundLocalError
     /\ consumed > HeaderEnd => Len(lines) >= 1
     /\ hist # None
        => LET I == fin[lines[Len(lines)].first]
           IN /\ Val(hist).n = I[1]
              /\ Len(I) >= 3 => Val(hist).a = Some(I[3])
              /\ Len(I) >= 4 => Val(hist).b = Some(I[4])
              /\ Len(I) >= 5 => Val(hist).c = Some(I[5])
              /\ Len(I) >= 6 => Val(hist).d = Some(I[6])

\* an I-line of two fields, particle 7 and next event 1000: UnboundLocalError
C16_TwoFieldsRaise ==
  /\ ppc = "raised"
  /\ perror = UnboundLocalError
  /\ input.N[1] = 2
  /\ fin[consumed] = <<7, 1000>>

\* =====================================================================
\* C17
\* =====================================================================
\* C17: every history handed over is at the category "final" and was read
\* from exactly 1 + 2k lines, k its number of events; the histories follow one
\* another with no line between them, the first right after the identifier
\* block, and between histories no line past the last history's is consumed;
\* a file whose events all decode is read to its end without an error, every
\* one of its histories handed over with the events the file holds for it.
C17_FinalClosesHistory ==
  /\ \A i \in 1..Len(delivered) :
       /\ delivered[i].current_event = "final"
       /\ lines[i].last # None
       /\ Val(lines[i].last) - lines[i].first + 1 = 1 + 2 * Len(delivered[i].history)
  /\ \A i \in 1..Len(lines) :
       lines[i].first = IF i = 1 THEN HeaderEnd + 1 ELSE Val(lines[i - 1].last) + 1
  /\ (ppc = "history" /\ Len(lines) >= 1) => consumed = Val(lines[Len(lines)].last)
  /\ (PlainInput /\ input.N[1] \in 4..6 /\ UnknownPositions = {}
        /\ input.cut = Len(BodyLines(input.histories, input.N[1])))
     => /\ ppc # "raised"
        /\ ppc = "done"
           => /\ Len(delivered) = Len(input.histories)
              /\ \A i \in 1..Len(delivered) :
                   Len(delivered[i].history) = Len(input.histories[i].steps)

\* two histories read to the end of the file: the first of two events from
\* five lines, the second of one event from the three lines after them
C17_TwoHistoriesRead ==
  /\ ppc = "done"
  /\ Len(delivered) = 2
  /\ Len(delivered[1].history) = 2
  /\ Len(delivered[2].history) = 1
  /\ lines[2].first = lines[1].first + 5
  /\ consumed = lines[2].first + 2

\* =====================================================================
\* C18
\* =====================================================================
\* C18: read_file ends normally (returns the header) only when the input
\* ends where an I-line is due: a file of decodable events that ends inside a
\* history, its J-line or P-line missing, does not end normally, and a file
\* that ends between histories raises nothing.
C18_TruncationReported ==
  (PlainInput /\ input.N[1] \in 4..6 /\ UnknownPositions = {})
  => /\ input.cut \notin HistoryEnds => ppc # "done"
     /\ input.cut \in HistoryEnds => ppc # "raised"

\* read_file returned the header with a history open, the file having ended
\* after its I-line
C18_TruncatedEndsNormally ==
  /\ ppc = "done"
  /\ hist # None
  /\ input.cut = 1
  /\ Val(hist).history = <<>>

\* =====================================================================
\* C19
\* =====================================================================
\* the bank code resolves to no entry of the bank table
UnrecognizedBank(id) ==
  /\ id \notin {1000, 3000, 4000, 5000, 9000}
  /\ (IF id < 0 THEN 0 - id ELSE id) - 2000 \notin BankKeys

BankNames == {bank_event_type[k][2] : k \in 1..Len(bank_event_type)}

\* C19: a bank event whose code resolves to no entry of the bank table does
\* not abort the decoding: read_file raises nothing, the history is handed
\* over with the event in it, and the event's type is no name of the bank
\* table and no event category.
C19_UnrecognizedBankRecorded ==
  (HasLastStep /\ UnrecognizedBank(LastStep.id))
  => /\ ppc # "raised"
     /\ ppc = "done"
        => /\ Len(delivered) = Len(input.histories)
           /\ Len(delivered[1].history) = Len(input.histories[1].steps)
           /\ delivered[1].history[Len(delivered[1].history)].event_type
                \notin BankNames \cup {event_type[k] : k \in DOMAIN event_type} \cup {"bank"}

\* the bank event 2027 raised TypeError when its record was decoded
C19_BankCodeAborts ==
  /\ ppc = "raised"
  /\ perror = TypeError
  /\ hist # None
  /\ Val(hist).current_event = "bank"
  /\ Val(hist).current_event_id = 2027

\* =====================================================================
\* C20
\* =====================================================================
\* the reason the tables give for a termination code and a particle code,
\* None where they give none
TableReason(code, ipt) ==
  CASE code \in 1..10 -> Some(termination_type[code])
    [] ipt = 1 /\ code \in 11..17 -> Some(termination_type_neutron[code])
    [] ipt = 2 /\ code \in 11..14 -> Some(termination_type_photon[code])
    [] OTHER -> None

\* C20: a termination event never aborts the decoding; its reason is the
\* table's for codes 1 to 10 whatever the particle, the neutron table's for
\* a neutron and the photon table's for a photon above 10, and for a code in
\* no table a placeholder that is none of the reasons.
C20_TerminationReason ==
  (HasLastStep /\ LastStep.id = 5000)
  => /\ ppc # "raised"
     /\ ppc = "done"
        => LET e == delivered[1].history[Len(delivered[1].history)]
               r == TableReason(LastStep.vals[1], LastStep.vals[2])
           IN IF r # None THEN e.termination_type = Text(Val(r))
              ELSE IsFmt(e.termination_type)

\* termination code 18 of a neutron raised KeyError
C20_CodeAboveTableAborts ==
  /\ ppc = "raised"
  /\ perror = KeyError
  /\ hist # None
  /\ Val(hist).current_event = "termination"
  /\ fin[consumed - 1] = <<FinalId, 18, 1>>

\* =====================================================================
\* C23
\* =====================================================================
\* the names of the identifiers the file holds from position a + 1 to b
InputNames(a, b) == [j \in 1..(b - a) |-> IDs[input.ids[a + j]]]

\* Header.parse has returned
HeaderParsed == ppc \in {"history", "J", "P", "done"} \/ (ppc = "raised" /\ hist # None)

\* C23: once Header.parse has returned, the header holds a layout for each
\* of nps, initial source, bank, surface, collision and termination; the
\* layout of a category has as many names as its count (n_nps, or the sum of
\* its two sub-counts) and holds the names of the identifiers that follow,
\* in the run, those of the categories before it, in their order: the six
\* layouts, one after the other, are the first N_ter identifiers of the run.
C23_LayoutsPartitionRun ==
  HeaderParsed
  => /\ DOMAIN Val(header).IDS = {Categories[k] : k \in 1..Len(Categories)}
     /\ \A k \in 1..Len(Categories) :
          /\ Len(Val(header).IDS[Categories[k]]) = InputOffsets[k + 1] - InputOffsets[k]
          /\ Val(header).IDS[Categories[k]] = InputNames(InputOffsets[k], InputOffsets[k + 1])
     /\ Val(header).IDS["nps"] \o Val(header).IDS["initial source"]
          \o Val(header).IDS["bank"] \o Val(header).IDS["surface"]
          \o Val(header).IDS["collision"] \o Val(header).IDS["termination"]
        = InputNames(0, DeclaredTotal)

\* a run of 61 identifiers on three lines, the bank's second sub-count
\* taking 52 of them, cut into the six layouts
C23_LongBankLayout ==
  /\ ppc = "history"
  /\ DeclaredTotal = 2 * IdsPerLine + 1
  /\ input.N[5] > IdsPerLine
  /\ Len(Val(header).IDS["bank"]) = input.N[4] + input.N[5]
  /\ Len(Val(header).IDS["termination"]) = 1

\* =====================================================================
\* C24
\* =====================================================================
\* the category the event-type table gives a code
CategoryOf(id) ==
  CASE id = 1000 -> "initial source"
    [] id = 3000 -> "surface"
    [] id = 4000 -> "collision"
    [] id = 5000 -> "termination"
    [] id = 9000 -> "final"
    [] OTHER -> "bank"

\* the history as it is once an event is decoded: still open, or handed over
HistoryAfter == IF hist' # None THEN Val(hist') ELSE delivered'[Len(delivered')]

\* an event was decoded in this step
EventDecoded == ppc = "P" /\ ppc' \in {"J", "history"}

\* the events decoded so far of the first history are those whose records
\* the file holds: a source record gives a particle and no surface, a
\* surface record a surface number and no particle
DecodedByLayout(h) ==
  \A j \in 1..Len(h.history) :
    /\ input.histories[1].steps[j] = [id |-> 1000, vals |-> <<1>>]
       => /\ h.history[j].event_type = "initial source"
          /\ h.history[j].particle = Text("neutron")
          /\ h.history[j].surface = None
    /\ input.histories[1].steps[j] = [id |-> 3000, vals |-> <<5>>]
       => /\ h.history[j].event_type = "surface"
          /\ h.history[j].surface = Some(5)
          /\ h.history[j].particle = None

IsLayoutInput ==
  /\ Len(input.histories) >= 1
  /\ Len(input.histories[1].steps) = 1
  /\ "pvals" \in DOMAIN input.histories[1].steps[1]

\* the names of the layout the first event is decoded with
FirstLayout ==
  LET id == input.histories[1].steps[1].id
      k == CASE id = 1000 -> 2 [] id = 3000 -> 4 [] id = 4000 -> 5 [] id = 5000 -> 6
             [] OTHER -> 3
  IN InputNames(InputOffsets[k], InputOffsets[k + 1])

FirstLayoutNames == {FirstLayout[j] : j \in 1..Len(FirstLayout)}

\* the layout has all of the position fields, or none
PositionWhole ==
  \/ {"XXX", "YYY", "ZZZ"} \subseteq FirstLayoutNames
  \/ {"XXX", "YYY", "ZZZ"} \cap FirstLayoutNames = {}

\* C25: an event of a recognized category (a bank event of a code of the
\* bank table) whose layout lacks NTYN/MTP, NXS, IPT, NCL or the position
\* fields is decoded without an error, the attribute of each missing
\* identifier left absent.
C25_MissingIdentifierAbsent ==
  (IsLayoutInput /\ PositionWhole /\ ~UnrecognizedBank(input.histories[1].steps[1].id))
  => /\ ppc # "raised"
     /\ Len(delivered) >= 1
        => LET e == delivered[1].history[1]
           IN /\ "NTYN/MTP" \notin FirstLayoutNames => e.ntyn = None
              /\ "NXS" \notin FirstLayoutNames => e.nxs = None
              /\ "IPT" \notin FirstLayoutNames => e.particle = None
              /\ "NCL" \notin FirstLayoutNames => e.cell_number = None
              /\ "XXX" \notin FirstLayoutNames => e.pos = None

\* a collision event whose layout is next event type, NXS | ERG: KeyError
\* for NTYN/MTP when its record is decoded
C25_CollisionWithoutNtynRaises ==
  /\ ppc = "raised"
  /\ perror = KeyError
  /\ IsLayoutInput
  /\ hist # None
  /\ Val(hist).current_event = "collision"
  /\ Val(header).IDS["collision"] = <<"next event type", "NXS", "ERG">>

\* =====================================================================
\* C26
\* =====================================================================
\* the event holds value v for the identifier of the given name: as the
\* attribute the name is resolved into, or under the name in the extra map
HoldsField(e, name, v) ==
  CASE name = "NTYN/MTP" -> e.ntyn = lookup_ntyn(v) \/ ("NTYN/MTP" \in DOMAIN e.misc /\ e.misc["NTYN/MTP"] = v)
    [] name = "NXS" -> e.nxs = Some(v) \/ ("NXS" \in DOMAIN e.misc /\ e.misc["NXS"] = v)
    [] name = "IPT" -> e.particle = get_particle(v)
    [] name = "NSR" -> e.source = Some(v)
    [] name = "NODE" -> e.node = Some(v)
    [] name = "Surface number" -> e.surface = Some(v)
    [] name = "NCL" -> e.cell_number = Some(v)
    [] name = "MAT" -> e.material = Some(v)
    [] name = "branch number for this history" -> e.branch_number = Some(v)
    [] name = "angle with surface normal" -> e.angle = Some(v)
    [] name = "termination type" -> e.termination_type # None
    [] name = "XXX" -> e.pos # None /\ e.pos[1] = v
    [] name = "YYY" -> e.pos # None /\ e.pos[2] = v
    [] name = "ZZZ" -> e.pos # None /\ e.pos[3] = v
    [] name = "UUU" -> e.dir # None /\ e.dir[1] = v
    [] name = "VVV" -> e.dir # None /\ e.dir[2] = v
    [] name = "WWW" -> e.dir # None /\ e.dir[3] = v
    [] name = "NCP" -> e.ncp = Some(v)
    [] name = "ERG" -> e.energy = Some(v)
    [] name = "WGT" -> e.weight = Some(v)
    [] name = "TME" -> e.time = Some(v)
    [] OTHER -> name \in DOMAIN e.misc /\ e.misc[name] = v

\* the record of the first event: its J-line and its P-line, one after the other
FirstRecord ==
  LET ls == EventLines(input.histories[1], 1) IN ls[1] \o ls[2]

\* C26: each position of the layout after the next-event field gives the
\* decoded event the value the record holds there, as the attribute its
\* identifier is resolved into or in the extra map under the identifier's
\* name: no value is lost, also when two identifiers of the layout (3 and
\* 17) have one name.
C26_EveryPositionKept ==
  (IsLayoutInput /\ Len(delivered) >= 1)
  => LET e == delivered[1].history[1]
     IN \A p \in 2..Len(FirstLayout) : HoldsField(e, FirstLayout[p], FirstRecord[p])

\* a surface event of layout 7 3 17 | 26 decoded from the values 3 and 4 of
\* the identifiers 3 and 17: the event's cell is 4, no extra is kept and the 3
\* is in no field
C26_TwoCellsCollapse ==
  /\ IsLayoutInput
  /\ Len(delivered) >= 1
  /\ Val(header).IDS["surface"] = <<"next event type", "NCL", "NCL", "ERG">>
  /\ fin[HeaderEnd + 2] = <<FinalId, 3, 4>>
  /\ delivered[1].history[1].cell_number = Some(4)
  /\ DOMAIN delivered[1].history[1].misc = {}

\* =====================================================================
\* C27
\* =====================================================================
\* the type the event of a record announced by the given id decodes to
TypeOf(id) ==
  IF CategoryOf(id) # "bank" THEN CategoryOf(id)
  ELSE BankEntry((IF id < 0 THEN 0 - id ELSE id) - 2000).name

\* the i-th history handed over is the i-th of the file, whole: at "final",
\* with an event for each of its records, in the order of the records
HandedWhole(i) ==
  /\ delivered[i].current_event = "final"
  /\ delivered[i].n = input.histories[i].n
  /\ Len(delivered[i].history) = Len(input.histories[i].steps)
  /\ \A j \in 1..Len(delivered[i].history) :
       delivered[i].history[j].event_type = TypeOf(input.histories[i].steps[j].id)
  /\ Len(HistoryLines(input.histories[i], input.N[1])) = Val(lines[i].last) - lines[i].first + 1
  /\ Val(lines[i].last) - HeaderEnd <= input.cut

\* C27: every history handed to handle_history is at the category "final"
\* and holds the events of all its records in the order they were read; the
\* histories handed over are those of the file, each once and in the file's
\* order; a step hands over at most one history and takes none back; the
\* history open when read_file raises or when the file ends is not among them.
C27_OnlyCompleteDelivered ==
  [][/\ Len(delivered') <= Len(input.histories)
     /\ \A i \in 1..Len(delivered') : HandedWhole(i)'
     /\ \/ delivered' = delivered
        \/ /\ Len(delivered') = Len(delivered) + 1
           /\ SubSeq(delivered', 1, Len(delivered)) = delivered
           /\ hist' = None
     /\ (ppc' \in {"raised", "done"} /\ hist' # None)
        => /\ \A i \in 1..Len(delivered') : delivered'[i].n # Val(hist').n
           /\ delivered' = delivered]_vars

\* the two histories of the file handed over in its order, the first with
\* its source event before its surface crossing
C27_BothHandedInOrder ==
  /\ ppc = "done"
  /\ Len(delivered) = 2
  /\ delivered[1].n = 7
  /\ delivered[2].n = 9
  /\ Len(delivered[1].history) = 2
  /\ delivered[1].history[1].event_type = "initial source"
  /\ delivered[1].history[2].event_type = "surface"

\* =====================================================================
\* C22
\* =====================================================================
\* the text of the card after its first "$"
AfterFirstDollar == SubSeq(call.text, IndexOf(call.text, "$") + 1, Len(call.text))

\* C22: from_mcnp of a card with one "$" or more never fails on the number
\* of its "$", and the surface it returns has as its comment all the text
\* after the first "$", a later "$" included.
C22_SplitAtFirstDollar ==
  (Called /\ IsCard /\ Contains(call.text, "$"))
  => /\ error # ValueError
     /\ surface # None => Val(surface).comment = Some(AfterFirstDollar)

\* a card that ends with " $ a $ b" is parsed: ValueError
C22_SecondDollarRaises ==
  /\ pc = "raised"
  /\ IsCard
  /\ call.card.suffix = <<" ","$"," ","a"," ","$"," ","b">>
  /\ error = ValueError

\* =====================================================================
\* inp.py: Inp
\* =====================================================================
NameError == "NameError"
INVALID_INP_TITLE == "INVALID_INP_TITLE"

\* the names a function of inp.py finds in the module: what it imports and
\* the class it defines
InpGlobals ==
  {"collections", "re", "Block", "Cells", "Surfaces", "Data", "parser", "errors",
   "types", "Inp"}

\* the value of a name in a method whose parameters are given with their
\* values: a parameter, then a name of the module, else NameError
NameValue(name, locals) ==
  IF name \in DOMAIN locals THEN [err |-> NoError, val |-> locals[name]]
  ELSE IF name \in InpGlobals THEN [err |-> NoError, val |-> Some(name)]
  ELSE [err |-> NameError, val |-> None]

\* characters a line of an INP file holds
TitleLimit == 80

\* set_title(self, title): "if message is not None and not len(title) < 80:
\* raise ...; self.title = title".  The test reads the name message first.
set_title(self_title, t) ==
  LET message == NameValue("message", [self |-> Some("self"), title |-> t])
  IN IF message.err # NoError THEN [err |-> message.err, title |-> self_title]
     ELSE IF message.val # None /\ ~(Len(Val(t)) < TitleLimit)
       THEN [err |-> INVALID_INP_TITLE, title |-> self_title]
     ELSE [err |-> NoError, title |-> t]

\* the titles tried: none, and texts of a length at, next to and far from
\* the limit
MaxCalls == 3
TitleLengths == {0, 1, TitleLimit - 1, TitleLimit, TitleLimit + 1}
Titles ==
  {None} \cup {Some([i \in 1..n |-> c]) : n \in TitleLengths, c \in {"a", "b"}}

\* Inp(), its title left None or assigned by the caller (inp.title = ...)
InpInit ==
  /\ SurfaceIdle
  /\ PtracIdle
  /\ KwIdle /\ FmIdle /\ CutIdle
  /\ ipc = "call"
  /\ iarg \in Titles
  /\ title \in {None, Some(<<"o", "l", "d">>)}
  /\ ierror = NoError
  /\ icalls = 0

\* inp.set_title(iarg)
CallSetTitle ==
  /\ ipc = "call"
  /\ LET r == set_title(title, iarg)
     IN /\ title' = r.title
        /\ ierror' = r.err
        /\ ipc' = IF r.err = NoError THEN "returned" ELSE "raised"
  /\ icalls' = icalls + 1
  /\ UNCHANGED iarg
  /\ UNCHANGED <<surfaceVars, ptracVars, kwVars, fmVars, cutVars>>

\* the caller goes on to another call, with another title
NextTitle ==
  /\ ipc \in {"returned", "raised"}
  /\ icalls < MaxCalls
  /\ iarg' \in Titles
  /\ ipc' = "call"
  /\ UNCHANGED <<title, ierror, icalls>>
  /\ UNCHANGED <<surfaceVars, ptracVars, kwVars, fmVars, cutVars>>

InpNext == CallSetTitle \/ NextTitle

InpSpec == InpInit /\ [][InpNext]_vars

\* =====================================================================
\* C21
\* =====================================================================
\* C21: set_title(None) returns and leaves the title None; set_title of a
\* title of fewer than 80 characters returns and stores it; set_title of a
\* longer title raises the invalid-title error and leaves the stored title
\* as it was.
C21_SetTitle ==
  [][ipc = "call"
     => /\ iarg = None => (ipc' = "returned" /\ title' = None)
        /\ (iarg # None /\ Len(Val(iarg)) < TitleLimit)
           => (ipc' = "returned" /\ title' = iarg)
        /\ (iarg # None /\ Len(Val(iarg)) > TitleLimit)
           => (ipc' = "raised" /\ ierror' = INVALID_INP_TITLE /\ title' = title)]_vars

\* set_title(None) on an Inp whose title is "old" raised NameError, and the
\* title is still "old"
C21_NoneRaisesNameError ==
  /\ ipc = "raised"
  /\ iarg = None
  /\ ierror = NameError
  /\ title = Some(<<"o", "l", "d">>)

\* =====================================================================
\* parse_ptrac.py: the keyword values of Header.parse and the module's
\* dictionary keywords
\* =====================================================================
KEYWORDS ==
  <<"Buffer", "Cell", "Event", "File", "Filter", "Max", "Menp", "NPS", "Surface",
    "Tally", "Type", "Value", "Write", "unknown">>

\* "keywords = {v: None for k, v in KEYWORDS.items()}", when the module is loaded
FreshKeywords == [k \in {KEYWORDS[i] : i \in 1..Len(KEYWORDS)} |-> None]

\* "(1x,10e12.4)", and the three lines of keyword values
KeywordsPerLine == 10
KeywordLines == 3

\* K[a:b] of a list of n entries
PySlice(K, a, b) ==
  LET hi == IF b > Len(K) THEN Len(K) ELSE b
  IN IF a >= hi THEN <<>> ELSE SubSeq(K, a + 1, hi)

\* "while idx < K[0]:" from the given j and idx on, on the dictionary kw: the
\* dictionary as the loop leaves it, and the error that ends it if one does
RECURSIVE KeywordLoop(_, _, _, _)
KeywordLoop(K, j, idx, kw) ==
  IF K[1] = None THEN [err |-> TypeError, kw |-> kw]
  ELSE IF ~(idx < Val(K[1])) THEN [err |-> NoError, kw |-> kw]
  ELSE IF j + 1 >= Len(K) THEN [err |-> IndexError, kw |-> kw]
  ELSE IF K[j + 2] = None THEN [err |-> TypeError, kw |-> kw]
  ELSE IF idx + 1 > Len(KEYWORDS) THEN [err |-> KeyError, kw |-> kw]
  ELSE LET n == Val(K[j + 2])
           values == PySlice(K, j + 2, j + 2 + n)
       IN KeywordLoop(K, j + 1 + n, idx + 1,
                      [kw EXCEPT ![KEYWORDS[idx + 1]] =
                                   IF Len(values) = 0 THEN None ELSE Some(values)])

\* the three lines read with "(1x,10e12.4)" and added into K, then the loop
ParseKeywords(ls, kw) ==
  KeywordLoop(FortranRead(ls[1], KeywordsPerLine) \o FortranRead(ls[2], KeywordsPerLine)
                \o FortranRead(ls[3], KeywordsPerLine),
              0, 0, kw)

\* the lines "  {k} {v}" of Header.__repr__: the keywords whose value is not
\* None, in the dictionary's order
KeywordsShown(kw) ==
  LET S == SelectSeq(KEYWORDS, LAMBDA k : kw[k] # None)
  IN [i \in 1..Len(S) |-> <<S[i], Val(kw[S[i]])>>]

\* ---- the keyword values of a file: for each of its first keywords, in
\* their order, the values it has
MaxKeywords == 2
ValueLists == {<<>>, <<1>>, <<2>>, <<1, 2>>}
KeywordBlocks == UNION {[1..m -> ValueLists] : m \in 0..MaxKeywords}

RECURSIVE KeywordValues(_)
KeywordValues(b) ==
  IF Len(b) = 0 THEN <<>> ELSE <<Len(Head(b))>> \o Head(b) \o KeywordValues(Tail(b))

\* the three lines of the file: the number of keywords, then for each the
\* number of its values and the values, ten numbers to a line
KeywordLinesOf(b) ==
  LET K == <<Len(b)>> \o KeywordValues(b)
  IN [l \in 1..KeywordLines |->
        PySlice(K, (l - 1) * KeywordsPerLine, l * KeywordsPerLine)]

\* the module is loaded and two files are there to decode
KeywordsInit ==
  /\ SurfaceIdle
  /\ PtracIdle
  /\ FmIdle /\ InpIdle /\ CutIdle
  /\ kpc = "first"
  /\ kinput \in KeywordBlocks \X KeywordBlocks
  /\ keywords = FreshKeywords
  /\ shown = <<>>
  /\ kerror = NoError

\* Header().parse(f) on the i-th file, then repr() of the header.  Of the
\* state other decodes can see, Header.parse reads and writes keywords only.
DecodeHeader(i) ==
  LET r == ParseKeywords(KeywordLinesOf(kinput[i]), keywords)
  IN /\ keywords' = r.kw
     /\ kerror' = r.err
     /\ IF r.err # NoError
        THEN kpc' = "raised" /\ UNCHANGED shown
        ELSE /\ shown' = Append(shown, KeywordsShown(r.kw))
             /\ kpc' = IF i = 1 THEN "second" ELSE "done"
     /\ UNCHANGED kinput
     /\ UNCHANGED <<surfaceVars, ptracVars, fmVars, inpVars, cutVars>>

DecodeFirst == kpc = "first" /\ DecodeHeader(1)

DecodeSecond == kpc = "second" /\ DecodeHeader(2)

KeywordsNext == DecodeFirst \/ DecodeSecond

KeywordsSpec == KeywordsInit /\ [][KeywordsNext]_vars

\* =====================================================================
\* C28
\* =====================================================================
\* what the header of a file shows when the file is the first the process
\* decodes
ShownAlone(b) == KeywordsShown(ParseKeywords(KeywordLinesOf(b), FreshKeywords).kw)

\* C28: the keyword values the header of a file shows are those the file
\* holds, the same when another file was decoded before it as when it is
\* the first the process decodes.
C28_DecodeUnshared ==
  /\ Len(shown) >= 1 => shown[1] = ShownAlone(kinput[1])
  /\ Len(shown) >= 2 => shown[2] = ShownAlone(kinput[2])

\* after a file with the values 1 2 for Buffer and 2 for Cell, a file with
\* the value 1 for Buffer and no other keyword is decoded: its header shows
\* Cell 2, which the first file set
C28_StaleKeywordShown ==
  /\ kpc = "done"
  /\ kinput[1] = << <<1, 2>>, <<2>> >>
  /\ kinput[2] = << <<1>> >>
  /\ shown[2] = << <<"Buffer", <<Some(1)>> >>, <<"Cell", <<Some(2)>> >> >>

\* ===================================================================
\* data.py: the Cut card, written by Cut.to_mcnp and read by Cut.from_mcnp
\* ===================================================================

\* A Python number: an int n is [kind |-> "int", tenths |-> 10 * n], a
\* float x is [kind |-> "float", tenths |-> 10 * x].
PyInt(n) == [kind |-> "int", tenths |-> 10 * n]
PyFloat(t) == [kind |-> "float", tenths |-> t]

\* a == b of two Python numbers
NumEq(a, b) == a.tenths = b.tenths

\* f"{x}" of a number: "2" for the int 2, "2.0" for the float 2.0
FormatNumber(x) ==
  IF x.kind = "int" THEN StrInt(x.tenths \div 10) ELSE StrReal(x.tenths)

\* s.strip()
RECURSIVE LStrip(_)
LStrip(s) == IF Len(s) > 0 /\ IsBlank(s[1]) THEN LStrip(Tail(s)) ELSE s
RECURSIVE RStrip(_)
RStrip(s) ==
  IF Len(s) > 0 /\ IsBlank(s[Len(s)]) THEN RStrip(SubSeq(s, 1, Len(s) - 1)) ELSE s
PyStrip(s) == RStrip(LStrip(s))

\* float(s): the float a text spells, ValueError for a text that spells none
float(s) ==
  LET t == PyStrip(s)
      u == Unsigned(t)
      dot == IF Contains(u, ".") THEN IndexOf(u, ".") ELSE Len(u) + 1
      whole == SubSeq(u, 1, dot - 1)
      frac == SubSeq(u, dot + 1, Len(u))
  IN IF /\ Len(whole) + Len(frac) > 0
        /\ \A i \in 1..Len(whole) : IsDigit(whole[i])
        /\ Len(frac) <= 1
        /\ \A i \in 1..Len(frac) : IsDigit(frac[i])
     THEN Return(PyFloat(Signed(t, 10 * NatOf(whole) + NatOf(frac))))
     ELSE Raise(ValueError)

\* parse_number(value): None for the placeholder j, float(value) otherwise;
\* obj is the returned value, None or Some(number)
parse_number(value) ==
  IF PyStrip(value) = <<"j">> THEN [err |-> NoError, obj |-> None]
  ELSE float(PyStrip(value))

\* the text that stands for an absent weight-cutoff pair before a present
\* minimum weight
PairPlaceholder_One == <<"j", " ">>
PairPlaceholder == <<"j", " ", "j", " ">>

\* the text that stands for one absent cutoff before a present field
Placeholder == <<"j", " ">>

\* Cut.to_mcnp(self): the card's text, built from the last field to the
\* first so that the absent fields at the end are left out
to_mcnp(self) ==
  LET o1 == IF self.weight_min = None THEN <<>>
            ELSE <<" ">> \o FormatNumber(Val(self.weight_min))
      o2 == IF self.weight_cutoff = None
            THEN IF Len(o1) > 0 THEN PairPlaceholder \o o1 ELSE o1
            ELSE FormatNumber(Val(self.weight_cutoff)[1]) \o <<" ">>
                   \o FormatNumber(Val(self.weight_cutoff)[2]) \o <<" ">> \o o1
      o3 == IF self.energy_cutoff = None
            THEN IF Len(o2) > 0 THEN Placeholder \o o2 ELSE o2
            ELSE FormatNumber(Val(self.energy_cutoff)) \o <<" ">> \o o2
      o4 == IF self.time_cutoff = None
            THEN IF Len(o3) > 0 THEN Placeholder \o o3 ELSE o3
            ELSE FormatNumber(Val(self.time_cutoff)) \o <<" ">> \o o3
      o5 == <<"c", "u", "t", ":">> \o self.particle \o <<" ">> \o o4
  IN PyStrip(o5) \o <<"\n">>

\* the line Cut.from_mcnp is given: it reads line.text and line.comment
InputLine(text, comment) == [text |-> text, comment |-> comment]

\* Cut(particle, time_cutoff, energy_cutoff, weight_cutoff, weight_min, comment)
Cut(particle, tc, ec, wc, w_min, comment) ==
  [particle |-> particle, time_cutoff |-> tc, energy_cutoff |-> ec,
   weight_cutoff |-> wc, weight_min |-> w_min, comment |-> comment]

\* parse_number of the i-th component (counted from 0) of the card, None
\* when the card has no such component
Component(components, i) ==
  IF i + 1 <= Len(components) THEN parse_number(components[i + 1])
  ELSE [err |-> NoError, obj |-> None]

\* a weight of the pair that the card leaves out is 0
OrZero(w) == IF w = None THEN PyFloat(0) ELSE Val(w)

\* Cut.from_mcnp(line): the card a line spells
from_mcnp(line) ==
  LET components == Words(line.text)
      tc == Component(components, 1)
      ec == Component(components, 2)
      w0 == Component(components, 3)
      w1 == Component(components, 4)
      wm == Component(components, 5)
      wc == IF w0.obj = None THEN None
            ELSE Some(<<OrZero(w0.obj), OrZero(w1.obj)>>)
  IN IF Len(components) >= 1 /\ Len(components[1]) < 5 THEN Raise(IndexError)
     ELSE IF tc.err # NoError THEN Raise(tc.err)
     ELSE IF ec.err # NoError THEN Raise(ec.err)
     ELSE IF w0.err # NoError THEN Raise(w0.err)
     ELSE IF w1.err # NoError THEN Raise(w1.err)
     ELSE IF wm.err # NoError THEN Raise(wm.err)
     ELSE Return(Cut(IF Len(components) >= 1 THEN <<components[1][5]>> ELSE <<>>,
                     tc.obj, ec.obj, wc, wm.obj, line.comment))

\* ------------------------------------------------------------- cards
\* the particle designators of the cards
CutParticles == {<<"n">>, <<"p">>}

\* the numbers of the cards: ints and floats, zero, negative
CutNumbers == {PyInt(0), PyInt(2), PyFloat(5), PyFloat(-15)}

\* an optional number
CutFields == {None} \cup {Some(x) : x \in CutNumbers}

\* an optional weight-cutoff pair
CutPairs ==
  {None} \cup {Some(<<a, b>>) : a \in {PyFloat(-5), PyInt(0)},
                                 b \in {PyFloat(-2), PyInt(1)}}

Cards ==
  {Cut(p, tc, ec, wc, wm, None) :
     p \in CutParticles, tc \in {None, Some(PyInt(2)), Some(PyFloat(5))},
     ec \in CutFields, wc \in CutPairs, wm \in CutFields}

\* ------------------------------------------------------------- calls
\* a Cut card, not yet written
CutInit ==
  /\ SurfaceIdle /\ PtracIdle
  /\ KwIdle /\ FmIdle /\ InpIdle
  /\ cpc = "card"
  /\ card \in {Some(c) : c \in Cards}
  /\ ctext = <<>>
  /\ card2 = None
  /\ cerror = NoError

\* text = card.to_mcnp()
WriteCut ==
  /\ cpc = "card"
  /\ cpc' = "written"
  /\ ctext' = to_mcnp(Val(card))
  /\ UNCHANGED <<card, card2, cerror>>
  /\ UNCHANGED <<surfaceVars, ptracVars, kwVars, fmVars, inpVars>>

\* card2 = Cut.from_mcnp(InputLine(text))
ReadCut ==
  /\ cpc = "written"
  /\ LET r == from_mcnp(InputLine(ctext, None))
     IN /\ cpc' = IF r.err = NoError THEN "read" ELSE "raised"
        /\ card2' = r.obj
        /\ cerror' = r.err
  /\ UNCHANGED <<card, ctext>>
  /\ UNCHANGED <<surfaceVars, ptracVars, kwVars, fmVars, inpVars>>

CutNext == WriteCut \/ ReadCut

CutSpec == CutInit /\ [][CutNext]_vars

\* ------------------------------------------------------------- C30
\* o1 == o2 of two optional numbers
SameField(o1, o2) ==
  (o1 = None /\ o2 = None) \/ (o1 # None /\ o2 # None /\ NumEq(Val(o1), Val(o2)))

\* o1 == o2 of two optional pairs of numbers
SamePair(o1, o2) ==
  \/ o1 = None /\ o2 = None
  \/ /\ o1 # None /\ o2 # None
     /\ NumEq(Val(o1)[1], Val(o2)[1])
     /\ NumEq(Val(o1)[2], Val(o2)[2])

\* the field written at position i of a card (1 time cutoff, 2 energy
\* cutoff, 3 and 4 the weight-cutoff pair, 5 minimum weight) is present
PresentAt(c, i) ==
  CASE i = 1 -> c.time_cutoff # None
    [] i = 2 -> c.energy_cutoff # None
    [] i = 3 -> c.weight_cutoff # None
    [] i = 4 -> c.weight_cutoff # None
    [] i = 5 -> c.weight_min # None

\* the position of the last present field of a card, 0 if it has none
LastPresent(c) ==
  IF \E i \in 1..5 : PresentAt(c, i)
  THEN CHOOSE i \in 1..5 : PresentAt(c, i) /\ \A j \in (i+1)..5 : ~PresentAt(c, j)
  ELSE 0

\* C30: a Cut card written by to_mcnp and read by from_mcnp comes back with
\* the same particle and the same cutoff fields; the text holds the
\* placeholder j for each absent field before a present one and nothing
\* for the absent fields at the end, and each of them is read back as absent
C30_CutRoundTrip ==
  /\ cpc # "raised"
  /\ cpc \in {"written", "read"} =>
       LET c == Val(card)
           w == Words(ctext)
       IN /\ Len(w) = 1 + LastPresent(c)
          /\ \A i \in 1..LastPresent(c) : ~PresentAt(c, i) <=> w[i + 1] = <<"j">>
  /\ cpc = "read" =>
       /\ Val(card2).particle = Val(card).particle
       /\ SameField(Val(card2).time_cutoff, Val(card).time_cutoff)
       /\ SameField(Val(card2).energy_cutoff, Val(card).energy_cutoff)
       /\ SamePair(Val(card2).weight_cutoff, Val(card).weight_cutoff)
       /\ SameField(Val(card2).weight_min, Val(card).weight_min)

\* the card cut:n j 2 j j 0.5, with an absent time cutoff and an absent
\* weight-cutoff pair before present fields, has been written and read back
C30_PlaceholdersReadBack ==
  /\ cpc = "read"
  /\ Val(card).particle = <<"n">>
  /\ Val(card).time_cutoff = None
  /\ Val(card).energy_cutoff = Some(PyInt(2))
  /\ Val(card).weight_cutoff = None
  /\ Val(card).weight_min = Some(PyFloat(5))
  /\ Words(ctext) = << <<"c","u","t",":","n">>, <<"j">>, <<"2">>, <<"j">>, <<"j">>,
                       <<"0",".","5">> >>
  /\ Val(card2).weight_cutoff = None
  /\ Val(card2).weight_min = Some(PyFloat(5))

\* ===================================================================
\* ptrac.py: Ptrac.from_mcnp, on the lines read_file was given
\* ===================================================================
\* what Header.from_mcnp and History.from_mcnp report
UnknownIdentifier == "UnknownIdentifier"
TruncatedFile == "TruncatedFile"

\* Header().from_mcnp(source): the header block is consumed, whatever the
\* number of lines its identifiers span, and the lines after it are
\* returned; an identifier that names no field fails the header.
HeaderFromMcnp ==
  IF UnknownPositions # {} THEN [err |-> UnknownIdentifier, used |-> 0]
  ELSE [err |-> NoError, used |-> HeaderEnd]

\* the events of a history, from the line after pos: while the next-event
\* code does not resolve to the final category a J-line and a P-line are
\* read, and the trailing field of the J-line is the next code; the input
\* ending inside the history is a truncated file.
RECURSIVE EventsFromMcnp(_, _, _)
EventsFromMcnp(pos, code, n) ==
  IF parse_event(code) = "final" THEN [err |-> NoError, last |-> pos, events |-> n]
  ELSE IF pos + 2 > Len(fin) \/ Len(fin[pos + 1]) = 0
    THEN [err |-> TruncatedFile, last |-> pos, events |-> n]
  ELSE EventsFromMcnp(pos + 2, fin[pos + 1][Len(fin[pos + 1])], n + 1)

\* History().from_mcnp(lines, header), lines being those after pos: the
\* I-line gives the particle and the code of the first event; the history
\* and the last line it took
HistoryFromMcnp(pos) ==
  LET I == fin[pos + 1]
      r == EventsFromMcnp(pos + 1, I[2], 0)
  IN IF Len(I) < 2 THEN [err |-> TruncatedFile, history |-> None, last |-> pos + 1]
     ELSE [err |-> r.err,
           history |-> Some([particle_id |-> I[1],
                             first_event_category |-> parse_event(I[2]),
                             events |-> r.events]),
           last |-> r.last]

\* a list that takes a new history at its front
Collect_Front(list, history) == <<history>> \o list

\* "histories.append(history)"
Collect(list, history) == Append(list, history)

\* "ptrac.header, lines = Header().from_mcnp(source)" and "histories = []"
FromMcnpHeader ==
  /\ fpc = "start"
  /\ ppc \in {"done", "raised"}
  /\ IF HeaderFromMcnp.err # NoError
     THEN /\ fpc' = "raised"
          /\ ferror' = HeaderFromMcnp.err
          /\ UNCHANGED <<fconsumed, histories>>
     ELSE /\ fpc' = "loop"
          /\ fconsumed' = HeaderFromMcnp.used
          /\ histories' = <<>>
          /\ UNCHANGED ferror
  /\ UNCHANGED <<surfaceVars, ptracVars, kwVars, inpVars, cutVars>>

\* one turn of "while lines:"
FromMcnpHistory ==
  /\ fpc = "loop"
  /\ fconsumed < Len(fin)
  /\ LET r == HistoryFromMcnp(fconsumed)
     IN IF r.err # NoError
        THEN /\ fpc' = "raised"
             /\ ferror' = r.err
             /\ UNCHANGED <<fconsumed, histories>>
        ELSE /\ fconsumed' = r.last
             /\ histories' = Collect(histories, Val(r.history))
             /\ UNCHANGED <<fpc, ferror>>
  /\ UNCHANGED <<surfaceVars, ptracVars, kwVars, inpVars, cutVars>>

\* "while lines:" is over, "ptrac.histories = tuple(histories)"
FromMcnpReturn ==
  /\ fpc = "loop"
  /\ fconsumed = Len(fin)
  /\ fpc' = "returned"
  /\ UNCHANGED <<fconsumed, histories, ferror>>
  /\ UNCHANGED <<surfaceVars, ptracVars, kwVars, inpVars, cutVars>>

\* files of plain events with an I-line of four fields, ending at any line
EndingInput(i) ==
  \E N1 \in {4}, h \in PlainHistories(7), f \in Followers :
    \E cut \in 0..Len(BodyLines(<<h>> \o f, N1)) :
      i = [Whole(EventCounts(N1), EventIds(N1), <<h>> \o f) EXCEPT !.cut = cut]

\* a file is read by read_file, then its lines by Ptrac.from_mcnp
PtracLiveInit ==
  /\ SurfaceIdle
  /\ KwIdle /\ InpIdle /\ CutIdle
  /\ \/ HeaderInput(input)
     \/ EndingInput(input)
     \/ LayoutInput(input)
  /\ fin = FileOf(input)
  /\ consumed = 0
  /\ ppc = "start"
  /\ header = None
  /\ scan = None
  /\ hist = None
  /\ Jline = None
  /\ delivered = <<>>
  /\ lines = <<>>
  /\ perror = NoError
  /\ fpc = "start"
  /\ fconsumed = 0
  /\ histories = <<>>
  /\ ferror = NoError

PtracLiveNext ==
  \/ PtracNext
  \/ FromMcnpHeader
  \/ FromMcnpHistory
  \/ FromMcnpReturn

\* both decoders run to their end: a step that can be taken is taken
PtracLive == PtracLiveInit /\ [][PtracLiveNext]_vars /\ WF_vars(PtracLiveNext)

\* ------------------------------------------------------------- C29
\* both decoders have stopped
Decoded == ppc \in {"done", "raised"} /\ fpc \in {"returned", "raised"}

\* C29: decoding a finite PTRAC file ends; every turn of read_file's loops
\* over the histories, of the identifier loop of the header and of the
\* "while lines" loop of Ptrac.from_mcnp takes at least one line, unless the
\* end of the input or an error ends it; Ptrac.from_mcnp collects the
\* histories in the order of the input, one for each history it decoded
C29_DecodingTerminates ==
  /\ <>Decoded
  /\ [][/\ consumed' <= Len(fin) /\ fconsumed' <= Len(fin)
        /\ ppc \in {"history", "J", "P"}
             => \/ consumed' > consumed
                \/ ppc' = "done" /\ consumed = Len(fin)
        /\ ppc = "more_ids"
             => \/ consumed' > consumed
                \/ ppc' = "raised" /\ consumed = Len(fin)
        /\ (fpc = "loop" /\ fpc' = "loop")
             => /\ fconsumed' > fconsumed
                /\ Len(histories') = Len(histories) + 1
                /\ SubSeq(histories', 1, Len(histories)) = histories
                /\ histories'[Len(histories')]
                     = Val(HistoryFromMcnp(fconsumed).history)
        /\ fpc' = "returned"
             => /\ fconsumed' = Len(fin)
                /\ histories' = histories]_vars

\* a file of two histories has been decoded by both: read_file handed two
\* histories on, Ptrac.from_mcnp returned them, the first in the file first
C29_TwoHistoriesCollected ==
  /\ ppc = "done"
  /\ Len(delivered) = 2
  /\ fpc = "returned"
  /\ Len(histories) = 2
  /\ histories[1].particle_id = input.histories[1].n
  /\ histories[2].particle_id = input.histories[2].n
  /\ histories[1].particle_id # histories[2].particle_id
  /\ histories[1].events = 1

====
